---- MODULE Spec2Model ----
(***************************************************************************)
(* Hercules: the persisted-state stores (schedules, workouts, plans), the  *)
(* AsyncStorage adapters they write through, the plan-deletion cascade of  *)
(* the plans screen, the exercise search and the derived utilities.        *)
(*                                                                         *)
(* JavaScript runs one task at a time: a store operation runs from its     *)
(* call up to the point where the AsyncStorage call is started as one      *)
(* step; the completion of every storage call is a later step of its own,  *)
(* and completions may arrive in any order and either succeed or throw.    *)
(***************************************************************************)
EXTENDS Integers, Sequences, FiniteSets, TLC

VARIABLES
  schedules,          \* useSchedulesStore state.schedules
  workouts,           \* useWorkoutSessionsStore state.workouts
  plans,              \* usePlansStore state.plans
  pendingDeletePlan,  \* PlansScreen useState: the plan of the open delete dialog
  storage,            \* AsyncStorage: key -> stored text (or no item)
  env,                \* execution context: decides canUseAsyncStorage()
  calls,              \* AsyncStorage calls in flight, in the order they were started
  settled,            \* the adapter call that returned most recently, and how
  ops,                \* number of operations performed so far
  focus,              \* the entity type this behaviour exercises
  search,             \* useSemanticExerciseSearch: its arguments, memo and return value
  tracker,            \* createWeekTracker: the device, the workouts and the descriptors
  timer,              \* useElapsedTimer: its props, ref, state, effects and the clock
  builder             \* the plan form: usePlanSaveHandler or usePlanBuilder

\* The state of the hooks and utilities, which no store operation touches
hookVars == <<search, tracker, timer, builder>>

\* The state of the stores and of the plans screen, which no hook touches
storeVars == <<schedules, workouts, plans, pendingDeletePlan, storage, env, calls,
               settled, ops, focus>>

vars == <<schedules, workouts, plans, pendingDeletePlan, storage, env, calls,
          settled, ops, focus, hookVars>>

----------------------------------------------------------------------------
(* Bounds of the model *)

MaxLen == 2
MaxOps == 3
MaxCalls == 2
NumDays == 2
MaxNow == 4

----------------------------------------------------------------------------
(* Values *)

NULL == "null"

PlanIds == {"p1", "p2"}

Days == 1 .. NumDays

\* Schedule.weekdays: each weekday key holds a plan id or null
WeekdayInputs ==
  { [d \in Days |-> IF d = 1 THEN "p1" ELSE NULL],
    [d \in Days |-> IF d = 1 THEN "p2" ELSE "p1"] }

createEmptyWeekdayAssignment == [d \in Days |-> NULL]

\* The ids the callers pass; "" is the empty id
IdInputs == {"", "s1", "s2"}

ScheduleInputs ==
  { s \in [id : IdInputs, weekdays : WeekdayInputs] :
      \/ s.id = "s1"
      \/ s.id = "" /\ s.weekdays[1] = "p1"
      \/ s.id = "s2" /\ s.weekdays[1] = "p2" }

\* The values of JavaScript that the workouts store inspects at run time (typeof,
\* Array.isArray, Boolean): a value carries its type.  A property that an object
\* does not have reads as undefined
JsUndefined == [t |-> "undefined"]
JsNull == [t |-> "null"]
JsNumber(n) == [t |-> "number", num |-> n]
JsString(str) == [t |-> "string", str |-> str]
JsBoolean(b) == [t |-> "boolean", bool |-> b]
JsArray(items) == [t |-> "array", items |-> items]
JsObject(fields) == [t |-> "object", fields |-> fields]

\* SetLog { reps: number; weight: number; completed: boolean }
SetLog(reps, weight, completed) ==
  JsObject([reps |-> JsNumber(reps), weight |-> JsNumber(weight),
            completed |-> JsBoolean(completed)])

\* WorkoutExercise { name: string; sets: SetLog[] }
WorkoutExercise(name, sets) == JsObject([name |-> JsString(name), sets |-> JsArray(sets)])

ExerciseInputs ==
  { JsArray(<<>>), JsArray(<<WorkoutExercise("squat", <<SetLog(8, 0, FALSE)>>)>>) }

WorkoutInputs ==
  { w \in [id : {"", "w1", "w2"}, planId : {"p1"}, exercises : ExerciseInputs] :
      \/ w.id = "w1"
      \/ w.id = "" /\ w.exercises = JsArray(<<>>)
      \/ w.id = "w2" /\ w.exercises # JsArray(<<>>) }

PlanInputs == { [id |-> i, name |-> "plan"] : i \in PlanIds }

Keys == {"hercules/schedules", "hercules/workouts", "@hercules/plans"}

SCHEDULES_STORAGE_KEY == "hercules/schedules"
WORKOUTS_STORAGE_KEY == "hercules/workouts"
PLANS_STORAGE_KEY == "@hercules/plans"

----------------------------------------------------------------------------
(* Sequence helpers *)

RemoveAt(s, i) == SubSeq(s, 1, i - 1) \o SubSeq(s, i + 1, Len(s))

----------------------------------------------------------------------------
(***************************************************************************)
(* Stored texts.  AsyncStorage holds strings; a string is modelled by what  *)
(* JSON.parse makes of it: no item, the empty string, a text that does not *)
(* parse, a JSON value that is no array, or a JSON array of elements.  An  *)
(* element is the JSON null or a JSON object, with or without an id.       *)
(***************************************************************************)

NoItem == [k |-> "null", elems |-> <<>>]
EmptyText == [k |-> "empty", elems |-> <<>>]
GarbageText == [k |-> "garbage", elems |-> <<>>]
ObjectText == [k |-> "object", elems |-> <<>>]
ArrayText(es) == [k |-> "array", elems |-> es]

JsonNull == [j |-> "null"]
JsonObject(fields) == [j |-> "object", fields |-> fields]

\* JSON.stringify of one typed entity: an object carrying every field, id included
StringifyItem(item) == JsonObject(item)

\* Boolean(x?.id): false for null, for a missing id and for the empty id
HasTruthyId(e) == e.j = "object" /\ "id" \in DOMAIN e.fields /\ e.fields.id # ""

\* What the running process finds in a slot: written by an earlier run, by
\* another version of the app, or damaged
StoredBefore(valid) ==
  { NoItem, EmptyText, GarbageText, ObjectText,
    ArrayText(<<JsonNull, StringifyItem(valid), JsonObject([name |-> "x"]),
                JsonObject([id |-> "", name |-> "y"])>>) }

----------------------------------------------------------------------------
(* src/utils/environment.ts *)

Envs == {"server", "browser", "reactNative"}

isBrowser == env = "browser"

isReactNative == env = "reactNative"

\* Faulty variant: the adapters do not ask the execution context
storageAlwaysUsed == TRUE

canUseAsyncStorage == isBrowser \/ isReactNative

----------------------------------------------------------------------------
(* AsyncStorage calls in flight and the record of the call that returned *)

NoPlan == [id |-> "", name |-> ""]

Call(fn, kind, key, data, op, arg) ==
  [fn |-> fn, kind |-> kind, key |-> key, data |-> data, op |-> op, arg |-> arg]

Returned(fn, op, outcome, error, opOutcome, result, touched) ==
  [fn |-> fn, op |-> op, outcome |-> outcome, error |-> error,
   opOutcome |-> opOutcome, result |-> result, touched |-> touched]

NothingReturned == Returned("none", "none", "none", "none", "none", <<>>, FALSE)

RawStorageError == "storage error"

\* Faulty variant: the value is merged into the item that the slot holds, as
\* AsyncStorage.mergeItem would, instead of replacing it
MergeItem(key, value, ok) ==
  IF ok
  THEN [storage EXCEPT ![key] = IF storage[key].k = "array" /\ value.k = "array"
                                THEN ArrayText(storage[key].elems \o value.elems)
                                ELSE value]
  ELSE storage

\* AsyncStorage.setItem / removeItem / getItem: what the slot holds afterwards
SetItem(key, value, ok) == IF ok THEN [storage EXCEPT ![key] = value] ELSE storage

\* Faulty variant: the item is left in the slot
RemoveItemKeeps(key, ok) == storage

RemoveItem(key, ok) == IF ok THEN [storage EXCEPT ![key] = NoItem] ELSE storage

\* Every call made counts against the budget of the behaviour
Called == ops' = ops + 1

Fields(es) == [i \in 1 .. Len(es) |-> es[i].fields]

----------------------------------------------------------------------------
(* src/utils/scheduleStorage.ts *)

serializeSchedules(items) == ArrayText([i \in 1 .. Len(items) |-> StringifyItem(items[i])])

\* Faulty variant: every object that has an id property is kept, the empty id included
parseSchedulesKeepsEmptyId(value) ==
  IF value.k # "array" THEN <<>>
  ELSE Fields(SelectSeq(value.elems,
                        LAMBDA e : e.j = "object" /\ "id" \in DOMAIN e.fields))

parseSchedules(value) ==
  IF value.k \in {"null", "empty"} THEN <<>>
  ELSE IF value.k = "garbage" THEN <<>>
  ELSE IF value.k # "array" THEN <<>>
  ELSE Fields(SelectSeq(value.elems, HasTruthyId))

\* Faulty variant: the store operation does not catch the adapter's rejection
schedulesStoreRethrows(adapterOutcome) == adapterOutcome

\* try { await persistStoredSchedules(next) } catch { console.error }: what the
\* store operation's own promise does when the adapter's promise has settled
schedulesStoreCatch(adapterOutcome) == "resolved"

\* the promise of the store operation op that awaited the adapter; a direct call
\* of the adapter has no store operation
schedulesStoreSettles(op, adapterOutcome) ==
  IF op = "none" THEN "none" ELSE schedulesStoreCatch(adapterOutcome)

\* the calls in flight and the returned-call record after the call of
\* persistStoredSchedules(items) by store operation op
persistStoredSchedules(items, op) ==
  IF ~canUseAsyncStorage
  THEN /\ calls' = calls
       /\ settled' = Returned("persistStoredSchedules", op, "resolved", "none",
                              schedulesStoreSettles(op, "resolved"), <<>>, FALSE)
  ELSE /\ calls' = Append(calls, Call("persistStoredSchedules", "setItem",
                                      SCHEDULES_STORAGE_KEY, serializeSchedules(items),
                                      op, NoPlan))
       /\ settled' = settled

\* Faulty variant: a write that returns while a write issued after it is still in
\* flight is dropped, so that the slot follows the order of issue
PersistStoredSchedulesSettlesInIssueOrder(i, ok) ==
  /\ i \in 1 .. Len(calls)
  /\ calls[i].fn = "persistStoredSchedules"
  /\ storage' = IF \E j \in i + 1 .. Len(calls) : calls[j].fn = calls[i].fn
                THEN storage
                ELSE SetItem(calls[i].key, calls[i].data, ok)
  /\ settled' = IF ok
                THEN Returned(calls[i].fn, calls[i].op, "resolved", "none",
                              schedulesStoreSettles(calls[i].op, "resolved"), <<>>, TRUE)
                ELSE Returned(calls[i].fn, calls[i].op, "rejected",
                              "Unable to persist schedules",
                              schedulesStoreSettles(calls[i].op, "rejected"), <<>>, TRUE)
  /\ calls' = RemoveAt(calls, i)
  /\ UNCHANGED <<schedules, workouts, plans, pendingDeletePlan, env, ops, focus, hookVars>>

\* AsyncStorage.setItem of a persistStoredSchedules call returns or throws
PersistStoredSchedulesSettles(i, ok) ==
  /\ i \in 1 .. Len(calls)
  /\ calls[i].fn = "persistStoredSchedules"
  /\ storage' = SetItem(calls[i].key, calls[i].data, ok)
  /\ settled' = IF ok
                THEN Returned(calls[i].fn, calls[i].op, "resolved", "none",
                              schedulesStoreSettles(calls[i].op, "resolved"), <<>>, TRUE)
                ELSE Returned(calls[i].fn, calls[i].op, "rejected",
                              "Unable to persist schedules",
                              schedulesStoreSettles(calls[i].op, "rejected"), <<>>, TRUE)
  /\ calls' = RemoveAt(calls, i)
  /\ UNCHANGED <<schedules, workouts, plans, pendingDeletePlan, env, ops, focus, hookVars>>

\* hydrateSchedules: set({ schedules: stored }) once loadStoredSchedules has returned
hydratedSchedules(stored) == stored

\* loadStoredSchedules called by op (hydrateSchedules, or a direct call)
loadStoredSchedules(op) ==
  IF ~canUseAsyncStorage
  THEN /\ calls' = calls
       /\ settled' = Returned("loadStoredSchedules", op, "resolved", "none",
                              IF op = "none" THEN "none" ELSE "resolved", <<>>, FALSE)
       /\ schedules' = IF op = "hydrateSchedules" THEN hydratedSchedules(<<>>) ELSE schedules
  ELSE /\ calls' = Append(calls, Call("loadStoredSchedules", "getItem",
                                      SCHEDULES_STORAGE_KEY, NoItem, op, NoPlan))
       /\ settled' = settled
       /\ schedules' = schedules

\* Faulty variant: a failing read is thrown on to the caller
loadStoredSchedulesRethrows(ok, value) ==
  IF ok THEN [outcome |-> "resolved", error |-> "none", result |-> parseSchedules(value)]
  ELSE [outcome |-> "rejected", error |-> RawStorageError, result |-> <<>>]

\* loadStoredSchedules: try { return parseSchedules(await getItem) } catch { return [] }
loadStoredSchedulesReturns(ok, value) ==
  [outcome |-> "resolved", error |-> "none",
   result |-> IF ok THEN parseSchedules(value) ELSE <<>>]

\* AsyncStorage.getItem of a loadStoredSchedules call returns or throws; hydrateSchedules
\* sets the store when the load has returned and leaves it alone when it has thrown
LoadStoredSchedulesSettles(i, ok) ==
  /\ i \in 1 .. Len(calls)
  /\ calls[i].fn = "loadStoredSchedules"
  /\ LET r == loadStoredSchedulesReturns(ok, storage[calls[i].key])
     IN /\ settled' = Returned(calls[i].fn, calls[i].op, r.outcome, r.error,
                               IF calls[i].op = "none" THEN "none" ELSE "resolved",
                               r.result, TRUE)
        /\ schedules' = IF calls[i].op = "hydrateSchedules" /\ r.outcome = "resolved"
                        THEN hydratedSchedules(r.result) ELSE schedules
  /\ calls' = RemoveAt(calls, i)
  /\ UNCHANGED <<workouts, plans, pendingDeletePlan, storage, env, ops, focus, hookVars>>

\* a direct call of loadStoredSchedules()
CallLoadStoredSchedules ==
  /\ focus = "schedules"
  /\ ops < MaxOps
  /\ Len(calls) < MaxCalls
  /\ loadStoredSchedules("none")
  /\ Called
  /\ UNCHANGED <<workouts, plans, pendingDeletePlan, storage, env, focus, hookVars>>

\* a direct call of persistStoredSchedules(items)
CallPersistStoredSchedules(items) ==
  /\ focus = "schedules"
  /\ ops < MaxOps
  /\ Len(calls) < MaxCalls
  /\ persistStoredSchedules(items, "none")
  /\ Called
  /\ UNCHANGED <<schedules, workouts, plans, pendingDeletePlan, storage, env, focus, hookVars>>

\* clearStoredSchedules()
ClearStoredSchedules ==
  /\ focus = "schedules"
  /\ ops < MaxOps
  /\ Len(calls) < MaxCalls
  /\ IF ~canUseAsyncStorage
     THEN /\ calls' = calls
          /\ settled' = Returned("clearStoredSchedules", "none", "resolved", "none",
                                 "none", <<>>, FALSE)
     ELSE /\ calls' = Append(calls, Call("clearStoredSchedules", "removeItem",
                                         SCHEDULES_STORAGE_KEY, NoItem, "none", NoPlan))
          /\ settled' = settled
  /\ Called
  /\ UNCHANGED <<schedules, workouts, plans, pendingDeletePlan, storage, env, focus, hookVars>>

ClearStoredSchedulesSettles(i, ok) ==
  /\ i \in 1 .. Len(calls)
  /\ calls[i].fn = "clearStoredSchedules"
  /\ storage' = RemoveItem(calls[i].key, ok)
  /\ settled' = IF ok
                THEN Returned(calls[i].fn, calls[i].op, "resolved", "none", "none", <<>>, TRUE)
                ELSE Returned(calls[i].fn, calls[i].op, "rejected",
                              "Unable to clear stored schedules", "none", <<>>, TRUE)
  /\ calls' = RemoveAt(calls, i)
  /\ UNCHANGED <<schedules, workouts, plans, pendingDeletePlan, env, ops, focus, hookVars>>

----------------------------------------------------------------------------
(* src/store/schedulesStore.ts *)

\* Faulty variant: the new schedule goes last
addScheduleAppends(schedule, current) == Append(current, schedule)

\* const next = [schedule, ...get().schedules]
addScheduleNext(schedule, current) == <<schedule>> \o current

\* get().schedules.filter((schedule) => schedule.id !== id)
deleteScheduleKeeps(id, existing) == existing.id # id

\* Faulty variant: only the first schedule with the id is removed
deleteScheduleFirstOnly(id, current) ==
  LET hits == { i \in 1 .. Len(current) : ~deleteScheduleKeeps(id, current[i]) }
  IN IF hits = {} THEN current
     ELSE RemoveAt(current, CHOOSE i \in hits : \A j \in hits : i <= j)

deleteScheduleNext(id, current) ==
  SelectSeq(current, LAMBDA existing : deleteScheduleKeeps(id, existing))

\* Faulty variant: a schedule whose id is not in the store is inserted
updateScheduleUpserts(schedule, current) ==
  IF \E i \in 1 .. Len(current) : current[i].id = schedule.id
  THEN [i \in 1 .. Len(current) |->
          IF current[i].id = schedule.id THEN schedule ELSE current[i]]
  ELSE Append(current, schedule)

\* get().schedules.map((existing) => existing.id === schedule.id ? schedule : existing)
updateScheduleNext(schedule, current) ==
  [i \in 1 .. Len(current) |->
     IF current[i].id = schedule.id THEN schedule ELSE current[i]]

\* Faulty variant: the store is set only after the write has been awaited
setSchedulesAfterPersist(next) == schedules

\* set({ schedules: next }): state.schedules when the operation has returned its promise
setSchedules(next) == next

AddSchedule(schedule) ==
  /\ focus = "schedules"
  /\ ops < MaxOps
  /\ Len(calls) < MaxCalls
  /\ Len(schedules) < MaxLen
  /\ LET next == addScheduleNext(schedule, schedules)
     IN /\ schedules' = setSchedules(next)
        /\ persistStoredSchedules(next, "addSchedule")
  /\ Called
  /\ UNCHANGED <<workouts, plans, pendingDeletePlan, storage, env, focus, hookVars>>

DeleteSchedule(id) ==
  /\ focus = "schedules"
  /\ ops < MaxOps
  /\ Len(calls) < MaxCalls
  /\ LET next == deleteScheduleNext(id, schedules)
     IN /\ schedules' = setSchedules(next)
        /\ persistStoredSchedules(next, "deleteSchedule")
  /\ Called
  /\ UNCHANGED <<workouts, plans, pendingDeletePlan, storage, env, focus, hookVars>>

UpdateSchedule(schedule) ==
  /\ focus = "schedules"
  /\ ops < MaxOps
  /\ Len(calls) < MaxCalls
  /\ LET next == updateScheduleNext(schedule, schedules)
     IN /\ schedules' = setSchedules(next)
        /\ persistStoredSchedules(next, "updateSchedule")
  /\ Called
  /\ UNCHANGED <<workouts, plans, pendingDeletePlan, storage, env, focus, hookVars>>

HydrateSchedules ==
  /\ focus = "schedules"
  /\ ops < MaxOps
  /\ Len(calls) < MaxCalls
  /\ loadStoredSchedules("hydrateSchedules")
  /\ Called
  /\ UNCHANGED <<workouts, plans, pendingDeletePlan, storage, env, focus, hookVars>>

----------------------------------------------------------------------------
(* src/utils/workoutSessionStorage.ts *)

serializeWorkouts(items) == ArrayText([i \in 1 .. Len(items) |-> StringifyItem(items[i])])

parseWorkouts(value) ==
  IF value.k \in {"null", "empty"} THEN <<>>
  ELSE IF value.k = "garbage" THEN <<>>
  ELSE IF value.k # "array" THEN <<>>
  ELSE Fields(SelectSeq(value.elems, HasTruthyId))

\* try { await persistStoredWorkoutSessions(next) } catch { console.error }
workoutsStoreCatch(adapterOutcome) == "resolved"

workoutsStoreSettles(op, adapterOutcome) ==
  IF op = "none" THEN "none" ELSE workoutsStoreCatch(adapterOutcome)

persistStoredWorkoutSessions(items, op) ==
  IF ~canUseAsyncStorage
  THEN /\ calls' = calls
       /\ settled' = Returned("persistStoredWorkoutSessions", op, "resolved", "none",
                              workoutsStoreSettles(op, "resolved"), <<>>, FALSE)
  ELSE /\ calls' = Append(calls, Call("persistStoredWorkoutSessions", "setItem",
                                      WORKOUTS_STORAGE_KEY, serializeWorkouts(items),
                                      op, NoPlan))
       /\ settled' = settled

PersistStoredWorkoutSessionsSettles(i, ok) ==
  /\ i \in 1 .. Len(calls)
  /\ calls[i].fn = "persistStoredWorkoutSessions"
  /\ storage' = SetItem(calls[i].key, calls[i].data, ok)
  /\ settled' = IF ok
                THEN Returned(calls[i].fn, calls[i].op, "resolved", "none",
                              workoutsStoreSettles(calls[i].op, "resolved"), <<>>, TRUE)
                ELSE Returned(calls[i].fn, calls[i].op, "rejected",
                              "Unable to persist workouts",
                              workoutsStoreSettles(calls[i].op, "rejected"), <<>>, TRUE)
  /\ calls' = RemoveAt(calls, i)
  /\ UNCHANGED <<schedules, workouts, plans, pendingDeletePlan, env, ops, focus, hookVars>>

clearStoredWorkoutSessions(op) ==
  IF ~canUseAsyncStorage
  THEN /\ calls' = calls
       /\ settled' = Returned("clearStoredWorkoutSessions", op, "resolved", "none",
                              workoutsStoreSettles(op, "resolved"), <<>>, FALSE)
  ELSE /\ calls' = Append(calls, Call("clearStoredWorkoutSessions", "removeItem",
                                      WORKOUTS_STORAGE_KEY, NoItem, op, NoPlan))
       /\ settled' = settled

ClearStoredWorkoutSessionsSettles(i, ok) ==
  /\ i \in 1 .. Len(calls)
  /\ calls[i].fn = "clearStoredWorkoutSessions"
  /\ storage' = RemoveItem(calls[i].key, ok)
  /\ settled' = IF ok
                THEN Returned(calls[i].fn, calls[i].op, "resolved", "none",
                              workoutsStoreSettles(calls[i].op, "resolved"), <<>>, TRUE)
                ELSE Returned(calls[i].fn, calls[i].op, "rejected",
                              "Unable to clear stored workouts",
                              workoutsStoreSettles(calls[i].op, "rejected"), <<>>, TRUE)
  /\ calls' = RemoveAt(calls, i)
  /\ UNCHANGED <<schedules, workouts, plans, pendingDeletePlan, env, ops, focus, hookVars>>

\* hydrateWorkouts: the normalisation of what loadStoredWorkoutSessions returned

\* value.property: undefined when value is no object or has no such property
\* (the read throws when value is null, see hydrateWorkoutsThrows)
Property(value, property) ==
  IF value.t = "object" /\ property \in DOMAIN value.fields
  THEN value.fields[property] ELSE JsUndefined

\* Faulty variant: a value that is no number is kept
numberKept(value) == IF value.t = "undefined" THEN JsNumber(0) ELSE value

\* typeof value === 'number' ? value : 0
numberOrZero(value) == IF value.t = "number" THEN value ELSE JsNumber(0)

\* Boolean(value)
ToBoolean(value) ==
  CASE value.t \in {"undefined", "null"} -> FALSE
    [] value.t = "boolean" -> value.bool
    [] value.t = "number" -> value.num # 0
    [] value.t = "string" -> value.str # ""
    [] OTHER -> TRUE

\* { ...value }: the own properties of an object, none of a number or of null
Spread(value) == IF value.t = "object" THEN value.fields ELSE <<>>

normalizedSet(set) ==
  JsObject([reps |-> numberOrZero(Property(set, "reps")),
            weight |-> numberOrZero(Property(set, "weight")),
            completed |-> JsBoolean(ToBoolean(Property(set, "completed")))])

\* Array.isArray(exercise.sets) ? exercise.sets.map(...) : []
normalizedSets(sets) ==
  IF sets.t = "array"
  THEN JsArray([i \in 1 .. Len(sets.items) |-> normalizedSet(sets.items[i])])
  ELSE JsArray(<<>>)

normalizedExercise(exercise) ==
  JsObject([f \in DOMAIN Spread(exercise) \cup {"sets"} |->
              IF f = "sets" THEN normalizedSets(Property(exercise, "sets"))
              ELSE Spread(exercise)[f]])

\* Array.isArray(workout.exercises) ? workout.exercises.map(...) : []
normalizedExercises(exercises) ==
  IF exercises.t = "array"
  THEN JsArray([i \in 1 .. Len(exercises.items) |-> normalizedExercise(exercises.items[i])])
  ELSE JsArray(<<>>)

\* workout.exercises of a stored workout
exercisesOf(workout) ==
  IF "exercises" \in DOMAIN workout THEN workout.exercises ELSE JsUndefined

normalizedWorkout(workout) ==
  [f \in DOMAIN workout \cup {"exercises"} |->
     IF f = "exercises" THEN normalizedExercises(exercisesOf(workout)) ELSE workout[f]]

\* exercise.sets of a null exercise and set.reps of a null set throw a TypeError,
\* which leaves stored.map(...) before set(...) is reached
exerciseThrows(exercise) ==
  \/ exercise.t = "null"
  \/ /\ Property(exercise, "sets").t = "array"
     /\ \E k \in 1 .. Len(Property(exercise, "sets").items) :
          Property(exercise, "sets").items[k].t = "null"

hydrateWorkoutsThrows(stored) ==
  \E i \in 1 .. Len(stored) :
    /\ exercisesOf(stored[i]).t = "array"
    /\ \E j \in 1 .. Len(exercisesOf(stored[i]).items) :
         exerciseThrows(exercisesOf(stored[i]).items[j])

\* set({ workouts: normalized })
hydratedWorkouts(stored) == [i \in 1 .. Len(stored) |-> normalizedWorkout(stored[i])]

\* hydrateWorkouts: try { ...; set({ workouts: normalized }) } catch { console.error }
hydrateWorkoutsSets(stored, current) ==
  IF hydrateWorkoutsThrows(stored) THEN current ELSE hydratedWorkouts(stored)

loadStoredWorkoutSessions(op) ==
  IF ~canUseAsyncStorage
  THEN /\ calls' = calls
       /\ settled' = Returned("loadStoredWorkoutSessions", op, "resolved", "none",
                              IF op = "none" THEN "none" ELSE "resolved", <<>>, FALSE)
       /\ workouts' = IF op = "hydrateWorkouts"
                      THEN hydrateWorkoutsSets(<<>>, workouts) ELSE workouts
  ELSE /\ calls' = Append(calls, Call("loadStoredWorkoutSessions", "getItem",
                                      WORKOUTS_STORAGE_KEY, NoItem, op, NoPlan))
       /\ settled' = settled
       /\ workouts' = workouts

\* loadStoredWorkoutSessions: try { return parseWorkouts(await getItem) } catch { return [] }
loadStoredWorkoutSessionsReturns(ok, value) ==
  [outcome |-> "resolved", error |-> "none",
   result |-> IF ok THEN parseWorkouts(value) ELSE <<>>]

LoadStoredWorkoutSessionsSettles(i, ok) ==
  /\ i \in 1 .. Len(calls)
  /\ calls[i].fn = "loadStoredWorkoutSessions"
  /\ LET r == loadStoredWorkoutSessionsReturns(ok, storage[calls[i].key])
     IN /\ settled' = Returned(calls[i].fn, calls[i].op, r.outcome, r.error,
                               IF calls[i].op = "none" THEN "none" ELSE "resolved",
                               r.result, TRUE)
        /\ workouts' = IF calls[i].op = "hydrateWorkouts" /\ r.outcome = "resolved"
                       THEN hydrateWorkoutsSets(r.result, workouts) ELSE workouts
  /\ calls' = RemoveAt(calls, i)
  /\ UNCHANGED <<schedules, plans, pendingDeletePlan, storage, env, ops, focus, hookVars>>

CallLoadStoredWorkoutSessions ==
  /\ focus = "workouts"
  /\ ops < MaxOps
  /\ Len(calls) < MaxCalls
  /\ loadStoredWorkoutSessions("none")
  /\ Called
  /\ UNCHANGED <<schedules, plans, pendingDeletePlan, storage, env, focus, hookVars>>

CallPersistStoredWorkoutSessions(items) ==
  /\ focus = "workouts"
  /\ ops < MaxOps
  /\ Len(calls) < MaxCalls
  /\ persistStoredWorkoutSessions(items, "none")
  /\ Called
  /\ UNCHANGED <<schedules, workouts, plans, pendingDeletePlan, storage, env, focus, hookVars>>

CallClearStoredWorkoutSessions ==
  /\ focus = "workouts"
  /\ ops < MaxOps
  /\ Len(calls) < MaxCalls
  /\ clearStoredWorkoutSessions("none")
  /\ Called
  /\ UNCHANGED <<schedules, workouts, plans, pendingDeletePlan, storage, env, focus, hookVars>>

----------------------------------------------------------------------------
(* src/store/workoutSessionsStore.ts *)

\* const next = [workout, ...get().workouts]
addWorkoutNext(workout, current) == <<workout>> \o current

\* get().workouts.map((existing) => (existing.id === workout.id ? workout : existing))
updateWorkoutNext(workout, current) ==
  [i \in 1 .. Len(current) |->
     IF current[i].id = workout.id THEN workout ELSE current[i]]

\* get().workouts.filter((workout) => workout.id !== id)
deleteWorkoutNext(id, current) == SelectSeq(current, LAMBDA workout : workout.id # id)

\* set({ workouts: next }): state.workouts when the operation has returned its promise
setWorkouts(next) == next

AddWorkout(workout) ==
  /\ focus = "workouts"
  /\ ops < MaxOps
  /\ Len(calls) < MaxCalls
  /\ Len(workouts) < MaxLen
  /\ LET next == addWorkoutNext(workout, workouts)
     IN /\ workouts' = setWorkouts(next)
        /\ persistStoredWorkoutSessions(next, "addWorkout")
  /\ Called
  /\ UNCHANGED <<schedules, plans, pendingDeletePlan, storage, env, focus, hookVars>>

UpdateWorkout(workout) ==
  /\ focus = "workouts"
  /\ ops < MaxOps
  /\ Len(calls) < MaxCalls
  /\ LET next == updateWorkoutNext(workout, workouts)
     IN /\ workouts' = setWorkouts(next)
        /\ persistStoredWorkoutSessions(next, "updateWorkout")
  /\ Called
  /\ UNCHANGED <<schedules, plans, pendingDeletePlan, storage, env, focus, hookVars>>

DeleteWorkout(id) ==
  /\ focus = "workouts"
  /\ ops < MaxOps
  /\ Len(calls) < MaxCalls
  /\ LET next == deleteWorkoutNext(id, workouts)
     IN /\ workouts' = setWorkouts(next)
        /\ persistStoredWorkoutSessions(next, "deleteWorkout")
  /\ Called
  /\ UNCHANGED <<schedules, plans, pendingDeletePlan, storage, env, focus, hookVars>>

ClearWorkouts ==
  /\ focus = "workouts"
  /\ ops < MaxOps
  /\ Len(calls) < MaxCalls
  /\ workouts' = setWorkouts(<<>>)
  /\ clearStoredWorkoutSessions("clearWorkouts")
  /\ Called
  /\ UNCHANGED <<schedules, plans, pendingDeletePlan, storage, env, focus, hookVars>>

HydrateWorkouts ==
  /\ focus = "workouts"
  /\ ops < MaxOps
  /\ Len(calls) < MaxCalls
  /\ loadStoredWorkoutSessions("hydrateWorkouts")
  /\ Called
  /\ UNCHANGED <<schedules, plans, pendingDeletePlan, storage, env, focus, hookVars>>

----------------------------------------------------------------------------
(* src/utils/storage.ts: the plans slot *)

serializePlans(items) == ArrayText([i \in 1 .. Len(items) |-> StringifyItem(items[i])])

parsePlans(value) ==
  IF value.k \in {"null", "empty"} THEN <<>>
  ELSE IF value.k = "garbage" THEN <<>>
  ELSE IF value.k # "array" THEN <<>>
  ELSE Fields(SelectSeq(value.elems, HasTruthyId))

\* getPlans(): a direct call
GetPlans ==
  /\ focus = "plans"
  /\ ops < MaxOps
  /\ Len(calls) < MaxCalls
  /\ IF ~canUseAsyncStorage
     THEN /\ calls' = calls
          /\ settled' = Returned("getPlans", "none", "resolved", "none", "none", <<>>, FALSE)
     ELSE /\ calls' = Append(calls, Call("getPlans", "getItem", PLANS_STORAGE_KEY,
                                         NoItem, "none", NoPlan))
          /\ settled' = settled
  /\ Called
  /\ UNCHANGED <<schedules, workouts, plans, pendingDeletePlan, storage, env, focus, hookVars>>

\* getPlans: try { return parsePlans(await getItem) } catch { return [] }
getPlansReturns(ok, value) ==
  [outcome |-> "resolved", error |-> "none",
   result |-> IF ok THEN parsePlans(value) ELSE <<>>]

GetPlansSettles(i, ok) ==
  /\ i \in 1 .. Len(calls)
  /\ calls[i].fn = "getPlans"
  /\ LET r == getPlansReturns(ok, storage[calls[i].key])
     IN settled' = Returned("getPlans", calls[i].op, r.outcome, r.error, "none",
                            r.result, TRUE)
  /\ calls' = RemoveAt(calls, i)
  /\ UNCHANGED <<schedules, workouts, plans, pendingDeletePlan, storage, env, ops, focus, hookVars>>

\* savePlan: const updatedPlans = [...filteredPlans, plan]
savePlanUpdated(plan, existingPlans) ==
  SelectSeq(existingPlans, LAMBDA existing : existing.id # plan.id) \o <<plan>>

\* savePlan: catch (error) { ...; throw error }
savePlanError(error) == error

\* savePlan(plan): up to the start of the read made by getPlans()
SavePlan(plan) ==
  /\ focus = "plans"
  /\ ops < MaxOps
  /\ Len(calls) < MaxCalls
  /\ IF ~canUseAsyncStorage
     THEN /\ calls' = calls
          /\ settled' = Returned("savePlan", "none", "resolved", "none", "none", <<>>, FALSE)
     ELSE /\ calls' = Append(calls, Call("savePlan", "getItem", PLANS_STORAGE_KEY,
                                         NoItem, "none", plan))
          /\ settled' = settled
  /\ Called
  /\ UNCHANGED <<schedules, workouts, plans, pendingDeletePlan, storage, env, focus, hookVars>>

\* the read of getPlans() returns (or throws, and getPlans returns []): savePlan
\* starts the write of the updated list
SavePlanReads(i, ok) ==
  /\ i \in 1 .. Len(calls)
  /\ calls[i].fn = "savePlan"
  /\ calls[i].kind = "getItem"
  /\ LET existingPlans == getPlansReturns(ok, storage[calls[i].key]).result
         updatedPlans == savePlanUpdated(calls[i].arg, existingPlans)
     IN calls' = Append(RemoveAt(calls, i),
                        Call("savePlan", "setItem", PLANS_STORAGE_KEY,
                             serializePlans(updatedPlans), calls[i].op, calls[i].arg))
  /\ UNCHANGED <<schedules, workouts, plans, pendingDeletePlan, storage, env,
                 settled, ops, focus, hookVars>>

\* the write of a direct call of savePlan returns or throws
SavePlanSettles(i, ok) ==
  /\ i \in 1 .. Len(calls)
  /\ calls[i].fn = "savePlan"
  /\ calls[i].kind = "setItem"
  /\ calls[i].op = "none"
  /\ storage' = SetItem(calls[i].key, calls[i].data, ok)
  /\ settled' = IF ok
                THEN Returned("savePlan", calls[i].op, "resolved", "none", "none", <<>>, TRUE)
                ELSE Returned("savePlan", calls[i].op, "rejected",
                              savePlanError(RawStorageError), "none", <<>>, TRUE)
  /\ calls' = RemoveAt(calls, i)
  /\ UNCHANGED <<schedules, workouts, plans, pendingDeletePlan, env, ops, focus, hookVars>>

\* deletePlan: existingPlans.filter((plan) => plan.id !== id)
deletePlanUpdated(id, existingPlans) == SelectSeq(existingPlans, LAMBDA plan : plan.id # id)

DeletePlan(id) ==
  /\ focus = "plans"
  /\ ops < MaxOps
  /\ Len(calls) < MaxCalls
  /\ IF ~canUseAsyncStorage
     THEN /\ calls' = calls
          /\ settled' = Returned("deletePlan", "none", "resolved", "none", "none", <<>>, FALSE)
     ELSE /\ calls' = Append(calls, Call("deletePlan", "getItem", PLANS_STORAGE_KEY,
                                         NoItem, "none", [id |-> id, name |-> ""]))
          /\ settled' = settled
  /\ Called
  /\ UNCHANGED <<schedules, workouts, plans, pendingDeletePlan, storage, env, focus, hookVars>>

DeletePlanReads(i, ok) ==
  /\ i \in 1 .. Len(calls)
  /\ calls[i].fn = "deletePlan"
  /\ calls[i].kind = "getItem"
  /\ LET existingPlans == getPlansReturns(ok, storage[calls[i].key]).result
         updatedPlans == deletePlanUpdated(calls[i].arg.id, existingPlans)
     IN calls' = Append(RemoveAt(calls, i),
                        Call("deletePlan", "setItem", PLANS_STORAGE_KEY,
                             serializePlans(updatedPlans), calls[i].op, calls[i].arg))
  /\ UNCHANGED <<schedules, workouts, plans, pendingDeletePlan, storage, env,
                 settled, ops, focus, hookVars>>

DeletePlanSettles(i, ok) ==
  /\ i \in 1 .. Len(calls)
  /\ calls[i].fn = "deletePlan"
  /\ calls[i].kind = "setItem"
  /\ storage' = SetItem(calls[i].key, calls[i].data, ok)
  /\ settled' = IF ok
                THEN Returned("deletePlan", calls[i].op, "resolved", "none", "none", <<>>, TRUE)
                ELSE Returned("deletePlan", calls[i].op, "rejected",
                              "Unable to delete plan", "none", <<>>, TRUE)
  /\ calls' = RemoveAt(calls, i)
  /\ UNCHANGED <<schedules, workouts, plans, pendingDeletePlan, env, ops, focus, hookVars>>

----------------------------------------------------------------------------
(* usePlansStore *)

\* addPlan(plan): the new plan goes first
addPlanNext(plan, current) == <<plan>> \o current

\* removePlan(id)
removePlanNext(id, current) == SelectSeq(current, LAMBDA plan : plan.id # id)

AddPlan(plan) ==
  /\ focus \in {"schedules", "plans"}
  /\ Len(plans) < MaxLen
  /\ \A i \in 1 .. Len(plans) : plans[i].id # plan.id
  /\ plans' = addPlanNext(plan, plans)
  /\ UNCHANGED <<schedules, workouts, pendingDeletePlan, storage, env, calls,
                 settled, ops, focus, hookVars>>

----------------------------------------------------------------------------
(* app/(tabs): PlansScreen *)

\* handleDeletePlan(plan): the press on the delete button of a listed plan
HandleDeletePlan(plan) ==
  /\ focus = "schedules"
  /\ \E i \in 1 .. Len(plans) : plans[i] = plan
  /\ pendingDeletePlan # plan.id
  /\ pendingDeletePlan' = plan.id
  /\ UNCHANGED <<schedules, workouts, plans, storage, env, calls, settled,
                 ops, focus, hookVars>>

\* dismissDeleteDialog
DismissDeleteDialog ==
  /\ pendingDeletePlan # NULL
  /\ pendingDeletePlan' = NULL
  /\ UNCHANGED <<schedules, workouts, plans, storage, env, calls, settled,
                 ops, focus, hookVars>>

\* confirmDeletePlan: const nextWeekdays = { ...schedule.weekdays } with every
\* day that holds the plan set to null
nextWeekdays(schedule, planId) ==
  [d \in Days |-> IF schedule.weekdays[d] = planId THEN NULL ELSE schedule.weekdays[d]]

didUpdate(schedule, planId) == \E d \in Days : schedule.weekdays[d] = planId

\* schedules.forEach(...) over the rendered list, from its i-th schedule on: each
\* updateSchedule call maps over the store's state of that moment and starts a
\* write of its own.  acc.mem is the store's state, acc.writes the snapshots written
RECURSIVE cascade(_, _, _, _)
cascade(rendered, i, planId, acc) ==
  IF i > Len(rendered) THEN acc
  ELSE IF didUpdate(rendered[i], planId)
       THEN LET updated == [rendered[i] EXCEPT !.weekdays = nextWeekdays(rendered[i], planId)]
                next == updateScheduleNext(updated, acc.mem)
            IN cascade(rendered, i + 1, planId,
                       [mem |-> next, writes |-> Append(acc.writes, next)])
       ELSE cascade(rendered, i + 1, planId, acc)

ConfirmDeletePlan ==
  /\ focus = "schedules"
  /\ ops < MaxOps
  /\ pendingDeletePlan # NULL
  /\ LET r == cascade(schedules, 1, pendingDeletePlan, [mem |-> schedules, writes |-> <<>>])
     IN /\ Len(calls) + Len(r.writes) <= MaxCalls
        /\ schedules' = setSchedules(r.mem)
        /\ IF r.writes = <<>>
           THEN UNCHANGED <<calls, settled>>
           ELSE IF ~canUseAsyncStorage
                THEN /\ calls' = calls
                     /\ settled' = Returned("persistStoredSchedules", "updateSchedule",
                                            "resolved", "none",
                                            schedulesStoreCatch("resolved"), <<>>, FALSE)
                ELSE /\ calls' = calls \o
                          [j \in 1 .. Len(r.writes) |->
                             Call("persistStoredSchedules", "setItem", SCHEDULES_STORAGE_KEY,
                                  serializeSchedules(r.writes[j]), "updateSchedule", NoPlan)]
                     /\ settled' = settled
  /\ plans' = removePlanNext(pendingDeletePlan, plans)
  /\ pendingDeletePlan' = NULL
  /\ Called
  /\ UNCHANGED <<workouts, storage, env, focus, hookVars>>

----------------------------------------------------------------------------
(* The execution context *)

EnvironmentChanges(e) ==
  /\ e # env
  /\ env' = e
  /\ UNCHANGED <<schedules, workouts, plans, pendingDeletePlan, storage, calls,
                 settled, ops, focus, hookVars>>

----------------------------------------------------------------------------
(* src/utils/strings.ts: normalizeSearchText *)

\* A string is the sequence of its characters
LowerCaseLetters ==
  <<"a", "b", "c", "d", "e", "f", "g", "h", "i", "j", "k", "l", "m", "n", "o", "p",
    "q", "r", "s", "t", "u", "v", "w", "x", "y", "z">>

Letters == { LowerCaseLetters[i] : i \in 1 .. Len(LowerCaseLetters) }

Digits == {"0", "1", "2", "3", "4", "5", "6", "7", "8", "9"}

Whitespace == {" ", "\t"}

\* The upper-case letters and the letters with a diacritic that the inputs use,
\* with the lower-case letter and the base letter they stand for
UpperCaseLetters ==
  <<"A", "B", "C", "D", "E", "F", "G", "H", "I", "J", "K", "L", "M", "N", "O", "P",
    "Q", "R", "S", "T", "U", "V", "W", "X", "Y", "Z">>

UpperCase ==
  [c \in { UpperCaseLetters[i] : i \in 1 .. Len(UpperCaseLetters) } |->
     LowerCaseLetters[CHOOSE i \in 1 .. Len(UpperCaseLetters) : UpperCaseLetters[i] = c]]

Accented == [c \in {"e'"} |-> "e"]

MapChars(str, f(_)) == [i \in 1 .. Len(str) |-> f(str[i])]

\* .normalize('NFKD').replace(/[\u0300-\u036f]/g, ''): an accented letter is
\* decomposed into its base letter and a combining mark, and the mark is removed
stripDiacritics(str) ==
  MapChars(str, LAMBDA c : IF c \in DOMAIN Accented THEN Accented[c] ELSE c)

\* .toLowerCase()
toLowerCase(str) ==
  MapChars(str, LAMBDA c : IF c \in DOMAIN UpperCase THEN UpperCase[c] ELSE c)

\* .replace(/[^a-z0-9\s]/g, ' ')
replaceNonAlphanumeric(str) ==
  MapChars(str, LAMBDA c : IF c \in Letters \cup Digits \cup Whitespace THEN c ELSE " ")

\* .replace(/\s+/g, ' '): every run of whitespace becomes one space
RECURSIVE collapseWhitespace(_)
collapseWhitespace(str) ==
  IF str = <<>> THEN <<>>
  ELSE IF Head(str) \in Whitespace
       THEN IF Len(str) > 1 /\ str[2] \in Whitespace
            THEN collapseWhitespace(Tail(str))
            ELSE <<" ">> \o collapseWhitespace(Tail(str))
       ELSE <<Head(str)>> \o collapseWhitespace(Tail(str))

\* .trim()
RECURSIVE trimStart(_)
trimStart(str) ==
  IF str # <<>> /\ Head(str) \in Whitespace THEN trimStart(Tail(str)) ELSE str

RECURSIVE trimEnd(_)
trimEnd(str) ==
  IF str # <<>> /\ str[Len(str)] \in Whitespace
  THEN trimEnd(SubSeq(str, 1, Len(str) - 1)) ELSE str

trim(str) == trimEnd(trimStart(str))

normalizeSearchText(value) ==
  trim(collapseWhitespace(replaceNonAlphanumeric(toLowerCase(stripDiacritics(value)))))

\* str.split(' ')
RECURSIVE split(_)
split(str) ==
  LET spaces == { i \in 1 .. Len(str) : str[i] = " " }
  IN IF spaces = {} THEN <<str>>
     ELSE LET first == CHOOSE i \in spaces : \A j \in spaces : i <= j
          IN <<SubSeq(str, 1, first - 1)>> \o split(SubSeq(str, first + 1, Len(str)))

\* haystack.startsWith(needle), haystack.includes(needle)
startsWith(haystack, needle) ==
  Len(needle) <= Len(haystack) /\ SubSeq(haystack, 1, Len(needle)) = needle

includes(haystack, needle) ==
  \E i \in 1 .. Len(haystack) + 1 :
    i + Len(needle) - 1 <= Len(haystack) /\ SubSeq(haystack, i, i + Len(needle) - 1) = needle

----------------------------------------------------------------------------
(* src/hooks/useSemanticExerciseSearch.ts *)

TOKEN_SYNONYMS ==
  [token \in {<<"c", "h", "e", "s", "t">>,
                <<"p", "e", "c">>,
                <<"b", "a", "c", "k">>,
                <<"l", "e", "g", "s">>,
                <<"s", "h", "o", "u", "l", "d", "e", "r", "s">>,
                <<"h", "a", "m", "s", "t", "r", "i", "n", "g", "s">>,
                <<"g", "l", "u", "t", "e", "s">>,
                <<"f", "u", "l", "l">>,
                <<"p", "r", "e", "s", "s">>,
                <<"r", "o", "w">>,
                <<"s", "q", "u", "a", "t">>,
                <<"d", "e", "a", "d", "l", "i", "f", "t">>,
                <<"h", "i", "n", "g", "e">>,
                <<"l", "u", "n", "g", "e">>,
                <<"c", "a", "r", "r", "y">>,
                <<"r", "o", "t", "a", "t", "i", "o", "n">>,
                <<"o", "l", "y", "m", "p", "i", "c">>,
                <<"a", "r", "m", "s">>,
                <<"b", "i", "c", "e", "p", "s">>,
                <<"t", "r", "i", "c", "e", "p", "s">>} |->
     CASE token = <<"c", "h", "e", "s", "t">> ->
            <<<<"p", "e", "c">>, <<"p", "e", "c", "t", "o", "r", "a", "l", "s">>, <<"p", "u", "s", "h">>>>
       [] token = <<"p", "e", "c">> ->
            <<<<"c", "h", "e", "s", "t">>>>
       [] token = <<"b", "a", "c", "k">> ->
            <<<<"p", "u", "l", "l">>, <<"l", "a", "t", "s">>, <<"p", "o", "s", "t", "e", "r", "i", "o", "r">>>>
       [] token = <<"l", "e", "g", "s">> ->
            <<<<"l", "o", "w", "e", "r">>, <<"q", "u", "a", "d", "s">>, <<"g", "l", "u", "t", "e", "s">>, <<"s", "q", "u", "a", "t">>>>
       [] token = <<"s", "h", "o", "u", "l", "d", "e", "r", "s">> ->
            <<<<"d", "e", "l", "t", "s">>, <<"p", "r", "e", "s", "s">>>>
       [] token = <<"h", "a", "m", "s", "t", "r", "i", "n", "g", "s">> ->
            <<<<"p", "o", "s", "t", "e", "r", "i", "o", "r">>, <<"h", "i", "n", "g", "e">>>>
       [] token = <<"g", "l", "u", "t", "e", "s">> ->
            <<<<"p", "o", "s", "t", "e", "r", "i", "o", "r">>, <<"h", "i", "p", "s">>>>
       [] token = <<"f", "u", "l", "l">> ->
            <<<<"t", "o", "t", "a", "l">>, <<"c", "o", "m", "p", "o", "u", "n", "d">>>>
       [] token = <<"p", "r", "e", "s", "s">> ->
            <<<<"p", "u", "s", "h">>>>
       [] token = <<"r", "o", "w">> ->
            <<<<"p", "u", "l", "l">>>>
       [] token = <<"s", "q", "u", "a", "t">> ->
            <<<<"l", "e", "g", "s">>, <<"h", "i", "n", "g", "e">>>>
       [] token = <<"d", "e", "a", "d", "l", "i", "f", "t">> ->
            <<<<"h", "i", "n", "g", "e">>, <<"p", "o", "s", "t", "e", "r", "i", "o", "r">>>>
       [] token = <<"h", "i", "n", "g", "e">> ->
            <<<<"p", "o", "s", "t", "e", "r", "i", "o", "r">>, <<"d", "e", "a", "d", "l", "i", "f", "t">>>>
       [] token = <<"l", "u", "n", "g", "e">> ->
            <<<<"s", "i", "n", "g", "l", "e">>, <<"s", "p", "l", "i", "t">>>>
       [] token = <<"c", "a", "r", "r", "y">> ->
            <<<<"f", "a", "r", "m", "e", "r">>, <<"l", "o", "a", "d", "e", "d">>>>
       [] token = <<"r", "o", "t", "a", "t", "i", "o", "n">> ->
            <<<<"a", "n", "t", "i", "-", "r", "o", "t", "a", "t", "i", "o", "n">>, <<"t", "w", "i", "s", "t">>>>
       [] token = <<"o", "l", "y", "m", "p", "i", "c">> ->
            <<<<"p", "o", "w", "e", "r">>, <<"e", "x", "p", "l", "o", "s", "i", "v", "e">>>>
       [] token = <<"a", "r", "m", "s">> ->
            <<<<"b", "i", "c", "e", "p", "s">>, <<"t", "r", "i", "c", "e", "p", "s">>>>
       [] token = <<"b", "i", "c", "e", "p", "s">> ->
            <<<<"a", "r", "m", "s">>>>
       [] token = <<"t", "r", "i", "c", "e", "p", "s">> ->
            <<<<"a", "r", "m", "s">>>>
  ]

\* The names that every object of JavaScript inherits and that a normalised token
\* can spell: TOKEN_SYNONYMS['constructor'] is the function Object
InheritedProperties == {<<"c", "o", "n", "s", "t", "r", "u", "c", "t", "o", "r">>}

\* Appends to seq the elements of more that it does not hold: Set.add, in order
RECURSIVE addAll(_, _)
addAll(seq, more) ==
  IF more = <<>> THEN seq
  ELSE addAll(IF \E i \in 1 .. Len(seq) : seq[i] = Head(more) THEN seq
              ELSE Append(seq, Head(more)),
              Tail(more))

\* The synonyms that tokens.forEach adds, token by token
RECURSIVE synonymsOf(_)
synonymsOf(tokens) ==
  IF tokens = <<>> THEN <<>>
  ELSE (IF Head(tokens) \in DOMAIN TOKEN_SYNONYMS THEN TOKEN_SYNONYMS[Head(tokens)]
        ELSE <<>>) \o synonymsOf(Tail(tokens))

\* synonyms.forEach is not a function: a TypeError
expandTokensThrows(tokens) ==
  \E i \in 1 .. Len(tokens) : tokens[i] \in InheritedProperties

\* new Set(tokens), then every synonym of every token added; Array.from(expanded)
expandTokens(tokens) == addAll(addAll(<<>>, tokens), synonymsOf(tokens))

\* Faulty variant: a token is looked for in the name only
tokenScoreOfName(exercise, token) ==
  LET normalizedName == normalizeSearchText(exercise.name)
  IN IF token = <<>> THEN 0
     ELSE IF normalizedName = token THEN 10
     ELSE IF startsWith(normalizedName, token) THEN 7
     ELSE IF includes(normalizedName, token) THEN 6
     ELSE 0

\* What one token adds to the score of an exercise
tokenScore(exercise, token) ==
  LET normalizedName == normalizeSearchText(exercise.name)
      muscleGroup == normalizeSearchText(exercise.muscleGroup)
      filterMuscleGroup == normalizeSearchText(exercise.filterMuscleGroup)
      secondaryMuscleGroups ==
        [i \in 1 .. Len(exercise.secondaryMuscleGroups) |->
           normalizeSearchText(exercise.secondaryMuscleGroups[i])]
      equipment ==
        [i \in 1 .. Len(exercise.equipment) |-> normalizeSearchText(exercise.equipment[i])]
      movementPattern == normalizeSearchText(exercise.movementPattern)
      searchIndex == exercise.searchIndex
  IN IF token = <<>> THEN 0
     ELSE IF normalizedName = token THEN 10
     ELSE IF startsWith(normalizedName, token) THEN 7
     ELSE IF includes(normalizedName, token) THEN 6
     ELSE IF includes(muscleGroup, token) \/ includes(filterMuscleGroup, token) THEN 5
     ELSE IF \E i \in 1 .. Len(secondaryMuscleGroups) :
               includes(secondaryMuscleGroups[i], token) THEN 4
     ELSE IF \E i \in 1 .. Len(equipment) : includes(equipment[i], token) THEN 4
     ELSE IF includes(movementPattern, token) THEN 3
     ELSE IF token = <<"c", "o", "m", "p", "o", "u", "n", "d">> /\ exercise.isCompound THEN 5
     ELSE IF token = <<"b", "o", "d", "y", "w", "e", "i", "g", "h", "t">> /\ exercise.isBodyweight THEN 5
     ELSE IF includes(searchIndex, token) THEN 2
     ELSE 0

\* tokens.reduce((score, token) => ..., 0)
RECURSIVE scoreExercise(_, _)
scoreExercise(exercise, tokens) ==
  IF tokens = <<>> THEN 0
  ELSE tokenScore(exercise, Head(tokens)) + scoreExercise(exercise, Tail(tokens))

\* Faulty variant: an exercise that no token matches is kept
scoreNotNegative(entry) == entry.score >= 0

\* .filter((entry) => entry.score > 0)
scorePositive(entry) == entry.score > 0

\* Faulty variant: an entry goes before the entries of the same score
insertBeforeEqual(entry, sorted) ==
  LET before == { i \in 1 .. Len(sorted) : sorted[i].score > entry.score }
  IN SubSeq(sorted, 1, Cardinality(before)) \o <<entry>>
       \o SubSeq(sorted, Cardinality(before) + 1, Len(sorted))

\* .sort((a, b) => b.score - a.score): the sort of an array is stable, so an entry
\* goes after the entries already placed whose score is not lower
insertByScore(entry, sorted) ==
  LET before == { i \in 1 .. Len(sorted) : sorted[i].score >= entry.score }
  IN SubSeq(sorted, 1, Cardinality(before)) \o <<entry>>
       \o SubSeq(sorted, Cardinality(before) + 1, Len(sorted))

RECURSIVE sortByScore(_, _)
sortByScore(entries, sorted) ==
  IF entries = <<>> THEN sorted
  ELSE sortByScore(Tail(entries), insertByScore(Head(entries), sorted))

\* .slice(0, limit), for a limit that is not negative
slice(entries, limit) ==
  SubSeq(entries, 1, IF limit < Len(entries) THEN limit ELSE Len(entries))

\* const { limit = 6, excludeIds = [] } = options ?? {}
defaultLimit == 6

limitOf(options) == IF options.limit = <<>> THEN defaultLimit ELSE options.limit[1]

\* The order of the default sort of strings: by the code units, character by character
CharCode(c) ==
  IF c \in Letters THEN 96 + (CHOOSE i \in 1 .. Len(LowerCaseLetters) : LowerCaseLetters[i] = c)
  ELSE IF c = "|" THEN 124 ELSE 0

RECURSIVE stringLess(_, _)
stringLess(a, b) ==
  IF b = <<>> THEN FALSE
  ELSE IF a = <<>> THEN TRUE
  ELSE IF Head(a) = Head(b) THEN stringLess(Tail(a), Tail(b))
  ELSE CharCode(Head(a)) < CharCode(Head(b))

RECURSIVE sortStrings(_, _)
sortStrings(strings, sorted) ==
  IF strings = <<>> THEN sorted
  ELSE LET before == { i \in 1 .. Len(sorted) : ~stringLess(Head(strings), sorted[i]) }
       IN sortStrings(Tail(strings),
                      SubSeq(sorted, 1, Cardinality(before)) \o <<Head(strings)>>
                        \o SubSeq(sorted, Cardinality(before) + 1, Len(sorted)))

RECURSIVE join(_, _)
join(strings, separator) ==
  IF strings = <<>> THEN <<>>
  ELSE IF Len(strings) = 1 THEN strings[1]
  ELSE strings[1] \o separator \o join(Tail(strings), separator)

\* excludeIds.slice().sort().join('|')
excludeKey(excludeIds) == join(sortStrings(excludeIds, <<>>), <<"|">>)

\* if (!normalizedQuery) return []
queryIsEmpty(normalizedQuery) == normalizedQuery = <<>>

\* excluded.has(exercise.id)
excludedHas(exercise, excludeIds) ==
  \E i \in 1 .. Len(excludeIds) : excludeIds[i] = exercise.id

\* normalizedQuery.split(' ').filter(Boolean)
queryTokens(normalizedQuery) == SelectSeq(split(normalizedQuery), LAMBDA token : token # <<>>)

\* The body of the second useMemo, for a query that is not empty and tokens that
\* expandTokens accepts
searchExercises(query, exercises, limit, excludeIds) ==
  LET tokens == expandTokens(queryTokens(normalizeSearchText(query)))
      kept == SelectSeq(exercises, LAMBDA exercise : ~excludedHas(exercise, excludeIds))
      scored == [i \in 1 .. Len(kept) |->
                   [exercise |-> kept[i], score |-> scoreExercise(kept[i], tokens)]]
      sliced == slice(sortByScore(SelectSeq(scored, scorePositive), <<>>), limit)
  IN [i \in 1 .. Len(sliced) |-> sliced[i].exercise]

searchThrows(query) ==
  /\ ~queryIsEmpty(normalizeSearchText(query))
  /\ expandTokensThrows(queryTokens(normalizeSearchText(query)))

\* Faulty variant: the empty query lists the catalog
searchListsCatalog(query, exercises, limit, excludeIds) ==
  IF queryIsEmpty(normalizeSearchText(query)) THEN exercises
  ELSE searchExercises(query, exercises, limit, excludeIds)

searchComputes(query, exercises, limit, excludeIds) ==
  IF queryIsEmpty(normalizeSearchText(query)) THEN <<>>
  ELSE searchExercises(query, exercises, limit, excludeIds)

\* The hook before its first render
NotRendered ==
  [args |-> [query |-> <<>>, exercises |-> <<>>, limit |-> <<>>, excludeIds |-> <<>>],
   memo |-> <<>>, outcome |-> "none", result |-> <<>>]

\* One render of a component that calls useSemanticExerciseSearch(query, exercises,
\* options): useMemo returns the value of the last computation when query,
\* exercises, limit and excludeKey are the ones of that computation, and computes
\* otherwise; a computation that throws leaves the memo as it was
UseSemanticExerciseSearch(query, exercises, options) ==
  LET limit == limitOf(options)
      deps == [exercises |-> exercises, query |-> query, limit |-> limit,
               excludeKey |-> excludeKey(options.excludeIds)]
      args == [query |-> query, exercises |-> exercises, limit |-> options.limit,
               excludeIds |-> options.excludeIds]
  IN /\ search' =
          IF search.memo # <<>> /\ search.memo[1].deps = deps
          THEN [args |-> args, memo |-> search.memo, outcome |-> "returned",
                result |-> search.memo[1].value]
          ELSE IF searchThrows(query)
               THEN [args |-> args, memo |-> search.memo, outcome |-> "threw",
                     result |-> <<>>]
               ELSE LET value == searchComputes(query, exercises, limit, options.excludeIds)
                    IN [args |-> args, memo |-> <<[deps |-> deps, value |-> value]>>,
                        outcome |-> "returned", result |-> value]
     /\ UNCHANGED <<storeVars, tracker, timer, builder>>

----------------------------------------------------------------------------
(* src/utils/date.ts and src/utils/dashboard.ts: createWeekTracker *)

\* Instants are counted in hours from 1970-01-01T00:00Z, local calendar days in
\* days from 1970-01-01, a Thursday
HoursPerDay == 24

DaysPerWeek == 7

EpochWeekday == 4

\* The time zones of the device: the hours that local time is ahead of UTC at an
\* instant.  "newYork" changes from -5 to -4 at DstStart
Zones == {"utc", "tokyo", "newYork"}

DstStart == 730

utcOffset(zone, instant) ==
  CASE zone = "utc" -> 0
    [] zone = "tokyo" -> 9
    [] zone = "newYork" -> IF instant < DstStart THEN 0 - 5 ELSE 0 - 4

\* Faulty variant: the fields of a Date are those of UTC
localFieldsOfUtc(zone, instant) ==
  [day |-> instant \div HoursPerDay, hours |-> instant % HoursPerDay]

\* new Date(instant): the local calendar day and the local hour that getDate,
\* getDay, setDate, setHours, getFullYear and getMonth work on
localFields(zone, instant) ==
  [day |-> (instant + utcOffset(zone, instant)) \div HoursPerDay,
   hours |-> (instant + utcOffset(zone, instant)) % HoursPerDay]

\* date.getDay(): 0 for Sunday
getDay(date) == (date.day + EpochWeekday) % DaysPerWeek

\* date.setHours(0, 0, 0, 0)
setHoursToMidnight(date) == [date EXCEPT !.hours = 0]

\* date.setDate(date.getDate() + days): a day of the month below 1 or beyond the
\* end of the month moves the date into the neighbouring month
setDate(date, days) == [date EXCEPT !.day = date.day + days]

\* getFullYear(), getMonth() + 1 and getDate() of a local calendar day between
\* 1969-12-01 and 1970-02-28
yearMonthDay(day) ==
  IF day < 0 THEN <<1969, 12, day + 32>>
  ELSE IF day < 31 THEN <<1970, 1, day + 1>>
  ELSE <<1970, 2, day - 30>>

\* formatDateToLocalISO(date): "YYYY-MM-DD", "NaN-NaN-NaN" of an invalid Date
InvalidDate == [day |-> 0, hours |-> 0 - 1]

formatDateToLocalISO(date) ==
  IF date = InvalidDate THEN <<0, 0, 0>> ELSE yearMonthDay(date.day)

\* new Date(workout.date): a date-time string is the instant it names, a string of
\* the form YYYY-MM-DD is midnight UTC of that day, any other string is invalid
parseDateString(zone, string) ==
  CASE string.kind = "dateTime" -> localFields(zone, string.at)
    [] string.kind = "dateOnly" -> localFields(zone, string.at * HoursPerDay)
    [] OTHER -> InvalidDate

\* getWorkoutLocalISO(workout): null when there is neither a start time nor a date
NoISO == <<>>

getWorkoutLocalISO(zone, workout) ==
  IF workout.startTime # 0
  THEN formatDateToLocalISO(localFields(zone, workout.startTime))
  ELSE IF workout.date.kind # "empty"
       THEN formatDateToLocalISO(parseDateString(zone, workout.date))
       ELSE NoISO

dayLabels == <<"Sun", "Mon", "Tue", "Wed", "Thu", "Fri", "Sat">>

\* workoutDates: the local dates of the workouts that have one
workoutDates(zone, tracked) ==
  { getWorkoutLocalISO(zone, tracked[i]) : i \in 1 .. Len(tracked) } \ {NoISO}

\* createWeekTracker(workouts) on a device in the time zone zone whose clock reads now
createWeekTracker(zone, now, tracked) ==
  LET today == localFields(zone, now)
      todayISO == formatDateToLocalISO(today)
      startOfWeek == setDate(setHoursToMidnight(today), 0 - getDay(today))
  IN [index \in 1 .. Len(dayLabels) |->
        LET dayDate == setDate(startOfWeek, index - 1)
            dayISO == formatDateToLocalISO(dayDate)
        IN [id |-> <<dayISO, dayLabels[index]>>,
            label |-> dayLabels[index],
            date |-> dayISO[3],
            hasWorkout |-> dayISO \in workoutDates(zone, tracked),
            isToday |-> dayISO = todayISO]]

NotTracked == [called |-> FALSE, zone |-> "utc", now |-> 0, workouts |-> <<>>, week |-> <<>>]

\* A call of createWeekTracker(workouts) when the clock of the device reads now
CreateWeekTracker(now, tracked) ==
  /\ tracker' = [called |-> TRUE, zone |-> tracker.zone, now |-> now,
                 workouts |-> tracked,
                 week |-> createWeekTracker(tracker.zone, now, tracked)]
  /\ UNCHANGED <<storeVars, search, timer, builder>>

----------------------------------------------------------------------------
(* src/hooks/useElapsedTimer.ts *)

\* The clock counts halves of a second; a start time of 0 stands for no start time
TicksPerSecond == 2

\* Math.max(Math.floor((now - start) / 1000), 0)
elapsedSince(start, now) ==
  IF (now - start) \div TicksPerSecond > 0 THEN (now - start) \div TicksPerSecond ELSE 0

\* The hook before the component is mounted, at the instant now
NotMounted ==
  [mounted |-> FALSE, startTime |-> 0, isActive |-> FALSE, persistedStartTime |-> 0,
   elapsedSeconds |-> 0, returned |-> 0, pending |-> {}, interval |-> FALSE, now |-> 0]

\* One render of the component with the props startTime and isActive: the first
\* render initialises the ref and the state; every render returns the state and
\* leaves to run, once it is committed, the effects whose dependencies changed
UseElapsedTimer(startTime, isActive) ==
  /\ timer.pending = {}
  /\ LET persisted == IF timer.mounted THEN timer.persistedStartTime ELSE startTime
         elapsed == IF timer.mounted THEN timer.elapsedSeconds
                    ELSE IF persisted = 0 THEN 0 ELSE elapsedSince(persisted, timer.now)
     IN timer' = [timer EXCEPT
                    !.mounted = TRUE,
                    !.startTime = startTime,
                    !.isActive = isActive,
                    !.persistedStartTime = persisted,
                    !.elapsedSeconds = elapsed,
                    !.returned = elapsed,
                    !.pending =
                      (IF ~timer.mounted \/ startTime # timer.startTime
                       THEN {"persist", "tick"} ELSE {})
                      \cup (IF ~timer.mounted \/ isActive # timer.isActive
                            THEN {"tick"} ELSE {})]
  /\ UNCHANGED <<storeVars, search, tracker, builder>>

\* The effects of the committed render run: the first keeps a start time that is
\* given in the ref; the second clears the interval of the effect before it and
\* either resets the state to 0 or computes the elapsed seconds and sets an interval
RunEffects ==
  /\ timer.pending # {}
  /\ LET persisted == IF "persist" \in timer.pending /\ timer.startTime # 0
                      THEN timer.startTime ELSE timer.persistedStartTime
         stopped == ~timer.isActive \/ persisted = 0
     IN timer' = [timer EXCEPT
                    !.persistedStartTime = persisted,
                    !.elapsedSeconds =
                      IF "tick" \notin timer.pending THEN timer.elapsedSeconds
                      ELSE IF stopped THEN 0 ELSE elapsedSince(persisted, timer.now),
                    !.interval =
                      IF "tick" \notin timer.pending THEN timer.interval ELSE ~stopped,
                    !.pending = {}]
  /\ UNCHANGED <<storeVars, search, tracker, builder>>

\* setElapsedSeconds has changed the state: the component renders again with the
\* props it has
Rerender ==
  /\ timer.mounted
  /\ timer.pending = {}
  /\ timer.returned # timer.elapsedSeconds
  /\ timer' = [timer EXCEPT !.returned = timer.elapsedSeconds]
  /\ UNCHANGED <<storeVars, search, tracker, builder>>

\* The interval fires: calculateElapsed
IntervalFires ==
  /\ timer.interval
  /\ timer' = [timer EXCEPT
                 !.elapsedSeconds = elapsedSince(timer.persistedStartTime, timer.now)]
  /\ UNCHANGED <<storeVars, search, tracker, builder>>

\* Date.now() moves on
ClockAdvances ==
  /\ timer.now < MaxNow
  /\ timer' = [timer EXCEPT !.now = timer.now + 1]
  /\ UNCHANGED <<storeVars, search, tracker, builder>>

----------------------------------------------------------------------------
(* src/hooks/usePlanSaveHandler.ts and src/hooks/usePlanBuilder.ts *)

DEFAULT_PLAN_SET_COUNT == 3

\* createPlanIdentifier(), createPlanId(): an identifier made of the time and a
\* random number, another one at every call
NewPlanIds == <<"n1", "n2", "n3", "n4", "n5", "n6">>

createPlanIdentifier == NewPlanIds[ops + 1]

\* new Date(timestamp).toISOString()
toISOString(timestamp) == [iso |-> timestamp]

\* Faulty variant: the name is not trimmed before it is tested
validatePlanUntrimmed(planName, selectedExercises) ==
  IF planName = <<>> THEN "missing-name"
  ELSE IF selectedExercises = <<>> THEN "no-exercises"
  ELSE "valid"

\* const trimmedName = planName.trim(); if (!trimmedName) return 'missing-name';
\* if (selectedExercises.length === 0) return 'no-exercises'
validatePlan(planName, selectedExercises) ==
  IF trim(planName) = <<>> THEN "missing-name"
  ELSE IF selectedExercises = <<>> THEN "no-exercises"
  ELSE "valid"

\* handleSavePlan: the WorkoutPlan handed to savePlan
handleSavePlanPayload(form, planIdentifier) ==
  [id |-> planIdentifier,
   name |-> trim(form.planName),
   exercises |-> [i \in 1 .. Len(form.selectedExercises) |->
                    [id |-> form.selectedExercises[i].id,
                     name |-> form.selectedExercises[i].name,
                     sets |-> DEFAULT_PLAN_SET_COUNT]],
   createdAt |-> toISOString(IF form.editingPlanCreatedAt = NULL THEN "now"
                             ELSE form.editingPlanCreatedAt)]

\* handleSavePlan: the plan handed to updatePlan or addPlan of the plan store
handleSavePlanEntry(form, planIdentifier) ==
  [id |-> planIdentifier,
   name |-> trim(form.planName),
   exercises |-> form.selectedExercises,
   createdAt |-> IF form.editingPlanCreatedAt = NULL THEN "now"
                 ELSE form.editingPlanCreatedAt]

\* submitPlan: the WorkoutPlan handed to savePlan
submitPlanPayload(form, planIdentifier) ==
  [id |-> planIdentifier,
   name |-> trim(form.planName),
   exercises |-> form.selectedExercises,
   createdAt |-> toISOString("now")]

\* usePlansStore.updatePlan(plan): the plan of that id is replaced
updatePlanNext(plan, current) ==
  [i \in 1 .. Len(current) |-> IF current[i].id = plan.id THEN plan ELSE current[i]]

\* if (isEditing) updatePlan(entry) else persistPlan(entry)
planStoreAfterSave(isEditing, entry, current) ==
  IF isEditing THEN updatePlanNext(entry, current) ELSE addPlanNext(entry, current)

EmptyForm ==
  [planName |-> <<>>, selectedExercises |-> <<>>, editingPlanId |-> NULL,
   editingPlanCreatedAt |-> NULL]

\* The state of the component that uses the hook: the form as the user has filled
\* it in, the isSaving state, the values that the callback of the last render
\* closed over, the invocations that are saving and the last result returned
FormOf(hook) ==
  [hook |-> hook, form |-> EmptyForm, isSaving |-> FALSE,
   callback |-> [form |-> EmptyForm, isSaving |-> FALSE],
   invocations |-> <<>>, result |-> "none"]

NoForm == FormOf("none")

\* The user fills in the form, or opens a plan for editing, and the component
\* renders with the new form
EditPlanForm(form) ==
  /\ builder.hook # "none"
  /\ ops < MaxOps
  /\ builder.form # form
  /\ builder' = [builder EXCEPT
                   !.form = form,
                   !.callback = [form |-> form, isSaving |-> builder.isSaving]]
  /\ Called
  /\ UNCHANGED <<schedules, workouts, plans, pendingDeletePlan, storage, env, calls,
                 settled, focus, search, tracker, timer>>

\* The component renders after setIsSaving or resetBuilder: useCallback makes a
\* callback that closes over the form and over isSaving as they are now
RenderPlanForm ==
  /\ builder.hook # "none"
  /\ builder.callback # [form |-> builder.form, isSaving |-> builder.isSaving]
  /\ builder' = [builder EXCEPT
                   !.callback = [form |-> builder.form, isSaving |-> builder.isSaving]]
  /\ UNCHANGED <<storeVars, search, tracker, timer>>

\* An invocation of the callback that has passed the checks: setIsSaving(true) and
\* savePlan(payload), which returns at once where there is no AsyncStorage (the
\* plan store is then updated and the haptic feedback started) and starts the
\* read of getPlans() otherwise
startSave(hook, isEditing, payload, entry) ==
  IF ~canUseAsyncStorage
  THEN /\ calls' = calls
       /\ settled' = Returned("savePlan", hook, "resolved", "none", "none", <<>>, FALSE)
       /\ plans' = IF hook = "handleSavePlan"
                   THEN planStoreAfterSave(isEditing, entry, plans) ELSE plans
       /\ builder' = [builder EXCEPT
                        !.isSaving = TRUE,
                        !.invocations = Append(@, [at |-> "haptics", payload |-> payload,
                                                   isEditing |-> isEditing,
                                                   entry |-> entry])]
  ELSE /\ calls' = Append(calls, Call("savePlan", "getItem", PLANS_STORAGE_KEY,
                                      NoItem, hook, payload))
       /\ settled' = settled
       /\ plans' = plans
       /\ builder' = [builder EXCEPT
                        !.isSaving = TRUE,
                        !.invocations = Append(@, [at |-> "savePlan", payload |-> payload,
                                                   isEditing |-> isEditing,
                                                   entry |-> entry])]

\* handleSavePlan(): a press on the save button, which runs the callback of the
\* last render
HandleSavePlan ==
  /\ builder.hook = "usePlanSaveHandler"
  /\ ops < MaxOps
  /\ Len(calls) < MaxCalls
  /\ LET closed == builder.callback
         checked == validatePlan(closed.form.planName, closed.form.selectedExercises)
         planIdentifier == IF closed.form.editingPlanId = NULL THEN createPlanIdentifier
                           ELSE closed.form.editingPlanId
     IN IF checked # "valid"
        THEN /\ builder' = [builder EXCEPT !.result = checked]
             /\ UNCHANGED <<calls, settled, plans>>
        ELSE IF closed.isSaving
             THEN /\ builder' = [builder EXCEPT !.result = "error"]
                  /\ UNCHANGED <<calls, settled, plans>>
             ELSE startSave("handleSavePlan", closed.form.editingPlanId # NULL,
                            handleSavePlanPayload(closed.form, planIdentifier),
                            handleSavePlanEntry(closed.form, planIdentifier))
  /\ Called
  /\ UNCHANGED <<schedules, workouts, pendingDeletePlan, storage, env, focus,
                 search, tracker, timer>>

\* submitPlan(): the callback of the last render of usePlanBuilder
SubmitPlan ==
  /\ builder.hook = "usePlanBuilder"
  /\ ops < MaxOps
  /\ Len(calls) < MaxCalls
  /\ LET closed == builder.callback
         checked == validatePlan(closed.form.planName, closed.form.selectedExercises)
     IN IF checked # "valid"
        THEN /\ builder' = [builder EXCEPT !.result = checked]
             /\ UNCHANGED <<calls, settled, plans>>
        ELSE startSave("submitPlan", FALSE,
                       submitPlanPayload(closed.form, createPlanIdentifier),
                       submitPlanPayload(closed.form, createPlanIdentifier))
  /\ Called
  /\ UNCHANGED <<schedules, workouts, pendingDeletePlan, storage, env, focus,
                 search, tracker, timer>>

\* The place in builder.invocations of an invocation that awaits savePlan(payload)
AwaitingSavePlan(payload) ==
  CHOOSE j \in 1 .. Len(builder.invocations) :
    builder.invocations[j].at = "savePlan" /\ builder.invocations[j].payload = payload

\* The write of the savePlan of an invocation returns or throws.  When it has
\* returned, handleSavePlan updates the plan store, and both hooks start the haptic
\* feedback; when it has thrown, the invocation returns 'error' and
\* setIsSaving(false)
PlanSaveSettles(i, ok) ==
  /\ i \in 1 .. Len(calls)
  /\ calls[i].fn = "savePlan"
  /\ calls[i].kind = "setItem"
  /\ calls[i].op \in {"handleSavePlan", "submitPlan"}
  /\ storage' = SetItem(calls[i].key, calls[i].data, ok)
  /\ settled' = IF ok
                THEN Returned("savePlan", calls[i].op, "resolved", "none", "none", <<>>, TRUE)
                ELSE Returned("savePlan", calls[i].op, "rejected",
                              savePlanError(RawStorageError), "none", <<>>, TRUE)
  /\ calls' = RemoveAt(calls, i)
  /\ LET j == AwaitingSavePlan(calls[i].arg)
         invocation == builder.invocations[j]
     IN IF ok
        THEN /\ plans' = IF calls[i].op = "handleSavePlan"
                         THEN planStoreAfterSave(invocation.isEditing, invocation.entry, plans)
                         ELSE plans
             /\ builder' = [builder EXCEPT !.invocations[j].at = "haptics"]
        ELSE /\ plans' = plans
             /\ builder' = [builder EXCEPT
                              !.invocations = RemoveAt(@, j),
                              !.result = "error",
                              !.isSaving = FALSE]
  /\ UNCHANGED <<schedules, workouts, pendingDeletePlan, env, ops, focus,
                 search, tracker, timer>>

\* Haptics.notificationAsync of an invocation returns or throws: handleSavePlan
\* resets the form of a new plan (resetBuilder) and the invocation returns
\* 'success', or it returns 'error'; in both cases setIsSaving(false)
HapticsSettles(j, ok) ==
  /\ j \in 1 .. Len(builder.invocations)
  /\ builder.invocations[j].at = "haptics"
  /\ builder' = [builder EXCEPT
                   !.invocations = RemoveAt(@, j),
                   !.result = IF ok THEN "success" ELSE "error",
                   !.isSaving = FALSE,
                   !.form = IF /\ ok
                               /\ builder.hook = "usePlanSaveHandler"
                               /\ ~builder.invocations[j].isEditing
                            THEN EmptyForm ELSE @]
  /\ UNCHANGED <<storeVars, search, tracker, timer>>

----------------------------------------------------------------------------
(* src/constants/exercises.ts: the catalog *)

Bodyweight == <<"B", "o", "d", "y", "w", "e", "i", "g", "h", "t">>

\* exercise.equipment.length === 1 && exercise.equipment[0] === 'Bodyweight'
isBodyweight(exercise) == Len(exercise.equipment) = 1 /\ exercise.equipment[1] = Bodyweight

\* buildSearchIndex(exercise): the normalised text of the fields and of the flags
buildSearchIndex(exercise) ==
  LET parts == <<exercise.name, exercise.primary_muscle>>
                 \o exercise.secondary_muscles
                 \o exercise.equipment
                 \o <<exercise.movement_pattern, exercise.difficulty, exercise.muscle_group>>
                 \o (IF exercise.is_compound THEN <<<<"c", "o", "m", "p", "o", "u", "n", "d">>>> ELSE <<>>)
                 \o (IF isBodyweight(exercise) THEN <<<<"b", "o", "d", "y", "w", "e", "i", "g", "h", "t">>>> ELSE <<>>)
  IN normalizeSearchText(join(parts, <<" ">>))

\* toExercise(exercise): the ExerciseCatalogItem of a raw exercise
toExercise(exercise) ==
  [id |-> exercise.id,
   name |-> exercise.name,
   muscleGroup |-> exercise.primary_muscle,
   filterMuscleGroup |-> exercise.muscle_group,
   secondaryMuscleGroups |-> exercise.secondary_muscles,
   equipment |-> exercise.equipment,
   movementPattern |-> exercise.movement_pattern,
   difficulty |-> exercise.difficulty,
   isCompound |-> exercise.is_compound,
   isBodyweight |-> isBodyweight(exercise),
   searchIndex |-> buildSearchIndex(exercise)]

----------------------------------------------------------------------------
(* The exercise search: renders of a component that uses the hook *)

\* ExerciseCatalogItem: the entries of the catalogs searched, as toExercise makes them
\* of the raw exercises of the catalog file

BenchPress ==
  toExercise([id |-> <<"b", "p">>,
              name |-> <<"B", "e", "n", "c", "h", " ", "P", "r", "e", "s", "s">>,
              primary_muscle |-> <<"C", "h", "e", "s", "t">>,
              secondary_muscles |-> <<<<"A", "r", "m", "s">>>>,
              equipment |-> <<<<"B", "a", "r", "b", "e", "l", "l">>>>,
              movement_pattern |-> <<"P", "r", "e", "s", "s">>,
              difficulty |-> <<"I", "n", "t", "e", "r", "m", "e", "d", "i", "a", "t", "e">>,
              is_compound |-> TRUE,
              muscle_group |-> <<"C", "h", "e", "s", "t">>])

LegCurl ==
  toExercise([id |-> <<"l", "c">>,
              name |-> <<"L", "e", "g", " ", "C", "u", "r", "l">>,
              primary_muscle |-> <<"H", "a", "m", "s", "t", "r", "i", "n", "g", "s">>,
              secondary_muscles |-> <<>>,
              equipment |-> <<<<"M", "a", "c", "h", "i", "n", "e">>>>,
              movement_pattern |-> <<"C", "u", "r", "l">>,
              difficulty |-> <<"B", "e", "g", "i", "n", "n", "e", "r">>,
              is_compound |-> FALSE,
              muscle_group |-> <<"L", "e", "g", "s">>])

CableFly ==
  toExercise([id |-> <<"c", "f">>,
              name |-> <<"C", "a", "b", "l", "e", " ", "F", "l", "y">>,
              primary_muscle |-> <<"C", "h", "e", "s", "t">>,
              secondary_muscles |-> <<>>,
              equipment |-> <<<<"C", "a", "b", "l", "e">>>>,
              movement_pattern |-> <<"F", "l", "y">>,
              difficulty |-> <<"B", "e", "g", "i", "n", "n", "e", "r">>,
              is_compound |-> FALSE,
              muscle_group |-> <<"C", "h", "e", "s", "t">>])

PushUp ==
  toExercise([id |-> <<"p", "u">>,
              name |-> <<"P", "u", "s", "h", " ", "U", "p">>,
              primary_muscle |-> <<"C", "h", "e", "s", "t">>,
              secondary_muscles |-> <<<<"A", "r", "m", "s">>>>,
              equipment |-> <<<<"B", "o", "d", "y", "w", "e", "i", "g", "h", "t">>>>,
              movement_pattern |-> <<"P", "r", "e", "s", "s">>,
              difficulty |-> <<"B", "e", "g", "i", "n", "n", "e", "r">>,
              is_compound |-> TRUE,
              muscle_group |-> <<"C", "h", "e", "s", "t">>])

ChestPress ==
  toExercise([id |-> <<"c", "p">>,
              name |-> <<"C", "h", "e", "s", "t", " ", "P", "r", "e", "s", "s">>,
              primary_muscle |-> <<"C", "h", "e", "s", "t">>,
              secondary_muscles |-> <<>>,
              equipment |-> <<<<"M", "a", "c", "h", "i", "n", "e">>>>,
              movement_pattern |-> <<"P", "r", "e", "s", "s">>,
              difficulty |-> <<"B", "e", "g", "i", "n", "n", "e", "r">>,
              is_compound |-> TRUE,
              muscle_group |-> <<"C", "h", "e", "s", "t">>])

CatalogInputs ==
  { <<>>, <<BenchPress, LegCurl>>, <<CableFly, LegCurl, PushUp, BenchPress, ChestPress>> }

\* "", " \t", "-!", "chest", "che'st" with an accent on the e, "leg curl",
\* "Bench-Press", "bodyweight", "constructor"
QueryInputs ==
  { <<>>,
    <<" ", "\t">>,
    <<"-", "!">>,
    <<"c", "h", "e", "s", "t">>,
    <<"c", "h", "e'", "s", "t">>,
    <<"l", "e", "g", " ", "c", "u", "r", "l">>,
    <<"B", "e", "n", "c", "h", "-", "P", "r", "e", "s", "s">>,
    <<"b", "o", "d", "y", "w", "e", "i", "g", "h", "t">>,
    <<"c", "o", "n", "s", "t", "r", "u", "c", "t", "o", "r">> }

LimitInputs == { <<>>, <<0>>, <<2>> }

ExcludeInputs ==
  { <<>>, <<<<"b", "p">>>>, <<<<"c", "f">>, <<"b", "p">>>>, <<<<"b", "p">>, <<"c", "f">>>> }

OptionInputs == [limit : LimitInputs, excludeIds : ExcludeInputs]

\* Nothing is stored and no store operation runs while the hooks are exercised
StoresIdle ==
  /\ schedules = <<>>
  /\ workouts = <<>>
  /\ plans = <<>>
  /\ pendingDeletePlan = NULL
  /\ calls = <<>>
  /\ settled = NothingReturned
  /\ ops = 0
  /\ focus = "hooks"
  /\ storage = [k \in Keys |-> NoItem]
  /\ env = "reactNative"

\* The catalog is loaded once: every render passes the same catalog
InitSearch ==
  /\ StoresIdle
  /\ search \in { [NotRendered EXCEPT !.args.exercises = exercises] :
                    exercises \in CatalogInputs }
  /\ tracker = NotTracked
  /\ timer = NotMounted
  /\ builder = NoForm

NextSearch ==
  \E query \in QueryInputs, options \in OptionInputs :
    UseSemanticExerciseSearch(query, search.args.exercises, options)

SpecSearch == InitSearch /\ [][NextSearch]_vars

----------------------------------------------------------------------------
(* The weekly tracker: calls of createWeekTracker on devices in several time *)
(* zones, at several instants, with several workouts                        *)

\* Workout.startTime and Workout.date of the workouts tracked: a start time, or
\* no start time (0) and a date string
TrackedWorkoutInputs ==
  { [startTime |-> 620, date |-> [kind |-> "dateTime", at |-> 620]],
    [startTime |-> 743, date |-> [kind |-> "dateOnly", at |-> 30]],
    [startTime |-> 0, date |-> [kind |-> "dateTime", at |-> 700]],
    [startTime |-> 0, date |-> [kind |-> "dateOnly", at |-> 27]],
    [startTime |-> 0, date |-> [kind |-> "invalid", at |-> 0]],
    [startTime |-> 0, date |-> [kind |-> "empty", at |-> 0]],
    [startTime |-> 400, date |-> [kind |-> "empty", at |-> 0]] }

TrackedListInputs ==
  {<<>>} \cup { <<w>> : w \in TrackedWorkoutInputs }
    \cup { <<v, w>> : v \in { t \in TrackedWorkoutInputs : t.startTime # 0 },
                      w \in { t \in TrackedWorkoutInputs : t.startTime = 0 } }

\* 1970-01-03T02:00Z, 1970-01-27T12:00Z, 1970-01-31T23:00Z, 1970-02-01T02:00Z
NowInputs == {50, 636, 743, 746}

InitTracker ==
  /\ StoresIdle
  /\ search = NotRendered
  /\ tracker \in { [NotTracked EXCEPT !.zone = zone] : zone \in Zones }
  /\ timer = NotMounted
  /\ builder = NoForm

NextTracker ==
  \E now \in NowInputs, tracked \in TrackedListInputs : CreateWeekTracker(now, tracked)

SpecTracker == InitTracker /\ [][NextTracker]_vars

----------------------------------------------------------------------------
(* The elapsed timer: renders of a component that uses the hook, its effects, *)
(* its interval and the clock                                                *)

\* No start time, a start time in the past and one in the future
StartTimeInputs == {0, 1, 9}

InitTimer ==
  /\ StoresIdle
  /\ search = NotRendered
  /\ tracker = NotTracked
  /\ timer \in { [NotMounted EXCEPT !.now = now] : now \in {0, 3} }
  /\ builder = NoForm

NextTimer ==
  \/ \E startTime \in StartTimeInputs, isActive \in BOOLEAN :
       UseElapsedTimer(startTime, isActive)
  \/ RunEffects
  \/ Rerender
  \/ IntervalFires
  \/ ClockAdvances

SpecTimer == InitTimer /\ [][NextTimer]_vars


----------------------------------------------------------------------------
(* The stores: every store operation, the plan deletion of the plans screen *)
(* and the return of every storage call they start                         *)

FirstSchedule == [id |-> "s1", weekdays |-> [d \in Days |-> IF d = 1 THEN "p1" ELSE "p2"]]

FirstWorkout == [id |-> "w1", planId |-> "p2", exercises |-> JsArray(<<>>)]

FirstPlan == [id |-> "p1", name |-> "first"]

KeyOf(f) ==
  CASE f = "schedules" -> SCHEDULES_STORAGE_KEY
    [] f = "workouts" -> WORKOUTS_STORAGE_KEY
    [] f = "plans" -> PLANS_STORAGE_KEY

FirstOf(f) ==
  CASE f = "schedules" -> FirstSchedule
    [] f = "workouts" -> FirstWorkout
    [] f = "plans" -> FirstPlan

\* The slots at the start of the process: the slot of the entity type exercised
\* holds one of texts, the others hold no item
StorageBefore(f, texts) ==
  { [k \in Keys |-> IF k = KeyOf(f) THEN v ELSE NoItem] : v \in texts }

InitCommon ==
  /\ schedules = <<>>
  /\ workouts = <<>>
  /\ plans = <<>>
  /\ pendingDeletePlan = NULL
  /\ calls = <<>>
  /\ settled = NothingReturned
  /\ ops = 0
  /\ search = NotRendered
  /\ tracker = NotTracked
  /\ timer = NotMounted
  /\ builder = NoForm

\* Workouts as an earlier version of the app, or a damaged write, may have stored
\* them: set entries without reps, weight or completed or with values of another
\* type there, sets and exercises that are no arrays, entries that are no objects
OddSetsWorkout ==
  [id |-> "w1", planId |-> "p1",
   exercises |->
     JsArray(<<JsObject([name |-> JsString("squat"),
                         sets |-> JsArray(<<JsObject([reps |-> JsString("8")]),
                                            JsObject([weight |-> JsNumber(5),
                                                      completed |-> JsNumber(1)]),
                                            JsNumber(3)>>)]),
               JsObject([name |-> JsString("row"), sets |-> JsString("none")]),
               JsObject([name |-> JsString("curl")]),
               JsNumber(7)>>)]

OddExercisesWorkouts ==
  <<[id |-> "w1", planId |-> "p1", exercises |-> JsString("none")],
    [id |-> "w2", planId |-> "p1"]>>

NullSetWorkout ==
  [id |-> "w2", planId |-> "p1",
   exercises |-> JsArray(<<WorkoutExercise("squat", <<SetLog(8, 0, TRUE), JsNull>>)>>)]

NullExerciseWorkout == [id |-> "w2", planId |-> "p1", exercises |-> JsArray(<<JsNull>>)]

OddWorkoutTexts ==
  { serializeWorkouts(<<OddSetsWorkout>>), serializeWorkouts(OddExercisesWorkouts),
    serializeWorkouts(<<FirstWorkout, NullSetWorkout>>),
    serializeWorkouts(<<NullExerciseWorkout>>) }

Init ==
  /\ InitCommon
  /\ focus \in {"schedules", "workouts"}
  /\ storage \in StorageBefore(focus,
                               {NoItem, ArrayText(<<StringifyItem(FirstOf(focus))>>)}
                                 \cup (IF focus = "workouts" THEN OddWorkoutTexts ELSE {}))
  /\ env \in {"server", "reactNative"}

Next ==
  \/ \E schedule \in ScheduleInputs : AddSchedule(schedule)
  \/ \E id \in IdInputs : DeleteSchedule(id)
  \/ \E schedule \in ScheduleInputs : UpdateSchedule(schedule)
  \/ HydrateSchedules
  \/ \E workout \in WorkoutInputs : AddWorkout(workout)
  \/ \E workout \in WorkoutInputs : UpdateWorkout(workout)
  \/ \E id \in {"", "w1", "w2"} : DeleteWorkout(id)
  \/ ClearWorkouts
  \/ HydrateWorkouts
  \/ \E i \in 1 .. MaxCalls, ok \in BOOLEAN : PersistStoredSchedulesSettles(i, ok)
  \/ \E i \in 1 .. MaxCalls, ok \in BOOLEAN : LoadStoredSchedulesSettles(i, ok)
  \/ \E i \in 1 .. MaxCalls, ok \in BOOLEAN : PersistStoredWorkoutSessionsSettles(i, ok)
  \/ \E i \in 1 .. MaxCalls, ok \in BOOLEAN : ClearStoredWorkoutSessionsSettles(i, ok)
  \/ \E i \in 1 .. MaxCalls, ok \in BOOLEAN : LoadStoredWorkoutSessionsSettles(i, ok)

Spec == Init /\ [][Next]_vars

----------------------------------------------------------------------------
(* The plan form: a component that uses usePlanSaveHandler, or one that uses *)
(* usePlanBuilder, the presses on its save button and the storage calls and *)
(* haptic feedback of the saves                                            *)

SquatExercise == [id |-> "e1", name |-> "Squat"]

\* The plan that the user may open for editing
ListedPlan ==
  [id |-> "p1", name |-> <<"O", "l", "d">>, exercises |-> <<SquatExercise>>,
   createdAt |-> "created"]

\* The forms of the screen that uses usePlanSaveHandler: a name that is empty, of
\* spaces only, or " A "; no exercise or one; a new plan or the listed plan
SaveHandlerForms ==
  { [EmptyForm EXCEPT !.selectedExercises = <<SquatExercise>>],
    [EmptyForm EXCEPT !.planName = <<" ", " ">>],
    [EmptyForm EXCEPT !.planName = <<" ", "A", " ">>],
    [EmptyForm EXCEPT !.planName = <<" ", "A", " ">>,
                      !.selectedExercises = <<SquatExercise>>],
    [planName |-> <<"B">>, selectedExercises |-> <<SquatExercise>>,
     editingPlanId |-> ListedPlan.id, editingPlanCreatedAt |-> ListedPlan.createdAt] }

\* The forms of usePlanBuilder: the exercises selected carry their number of sets
PlanBuilderForms ==
  { [EmptyForm EXCEPT !.selectedExercises = <<[id |-> "e1", name |-> "Squat", sets |-> 4]>>],
    [EmptyForm EXCEPT !.planName = <<" ", " ">>],
    [EmptyForm EXCEPT !.planName = <<" ", "A", " ">>],
    [EmptyForm EXCEPT !.planName = <<" ", "A", " ">>,
                      !.selectedExercises = <<[id |-> "e1", name |-> "Squat", sets |-> 4]>>] }

FormInputs ==
  IF builder.hook = "usePlanSaveHandler" THEN SaveHandlerForms ELSE PlanBuilderForms

InitPlanForm ==
  /\ schedules = <<>>
  /\ workouts = <<>>
  /\ plans = <<ListedPlan>>
  /\ pendingDeletePlan = NULL
  /\ calls = <<>>
  /\ settled = NothingReturned
  /\ ops = 0
  /\ focus = "plans"
  /\ storage \in StorageBefore("plans",
                               {NoItem,
                                serializePlans(<<handleSavePlanPayload(
                                                   [EmptyForm EXCEPT
                                                      !.planName = ListedPlan.name,
                                                      !.selectedExercises = ListedPlan.exercises,
                                                      !.editingPlanCreatedAt = ListedPlan.createdAt],
                                                   ListedPlan.id)>>)})
  /\ env \in {"server", "reactNative"}
  /\ search = NotRendered
  /\ tracker = NotTracked
  /\ timer = NotMounted
  /\ builder \in { FormOf(hook) : hook \in {"usePlanSaveHandler", "usePlanBuilder"} }

NextPlanForm ==
  \/ \E form \in FormInputs : EditPlanForm(form)
  \/ RenderPlanForm
  \/ HandleSavePlan
  \/ SubmitPlan
  \/ \E i \in 1 .. MaxCalls, ok \in BOOLEAN : SavePlanReads(i, ok)
  \/ \E i \in 1 .. MaxCalls, ok \in BOOLEAN : PlanSaveSettles(i, ok)
  \/ \E j \in 1 .. MaxOps, ok \in BOOLEAN : HapticsSettles(j, ok)

SpecPlanForm == InitPlanForm /\ [][NextPlanForm]_vars

----------------------------------------------------------------------------
(* The plans screen: the schedules store, the plans it lists and the       *)
(* deletion of a plan                                                      *)

InitPlansScreen ==
  /\ InitCommon
  /\ focus = "schedules"
  /\ storage \in StorageBefore(focus, {NoItem, ArrayText(<<StringifyItem(FirstSchedule)>>)})
  /\ env \in {"server", "reactNative"}

NextPlansScreen ==
  \/ \E schedule \in ScheduleInputs : AddSchedule(schedule)
  \/ \E id \in IdInputs : DeleteSchedule(id)
  \/ \E schedule \in ScheduleInputs : UpdateSchedule(schedule)
  \/ HydrateSchedules
  \/ \E plan \in PlanInputs : AddPlan(plan)
  \/ \E plan \in PlanInputs : HandleDeletePlan(plan)
  \/ DismissDeleteDialog
  \/ ConfirmDeletePlan
  \/ \E i \in 1 .. MaxCalls, ok \in BOOLEAN : PersistStoredSchedulesSettles(i, ok)
  \/ \E i \in 1 .. MaxCalls, ok \in BOOLEAN : LoadStoredSchedulesSettles(i, ok)

SpecPlansScreen == InitPlansScreen /\ [][NextPlansScreen]_vars

----------------------------------------------------------------------------
(* The plans screen used as its editor uses it: a schedule is saved only   *)
(* with references to plans of the plan collection, a plan leaves the      *)
(* collection only by confirmDeletePlan, and nothing is stored at the start *)

\* every plan id the schedule refers to is the id of a listed plan
ReferencesExist(schedule) ==
  \A d \in Days :
    schedule.weekdays[d] # NULL =>
      \E j \in 1 .. Len(plans) : plans[j].id = schedule.weekdays[d]

InitIntegrity ==
  /\ InitCommon
  /\ focus = "schedules"
  /\ storage \in StorageBefore(focus, {NoItem})
  /\ env \in {"server", "reactNative"}

NextIntegrity ==
  \/ \E schedule \in ScheduleInputs : ReferencesExist(schedule) /\ AddSchedule(schedule)
  \/ \E id \in IdInputs : DeleteSchedule(id)
  \/ \E schedule \in ScheduleInputs : ReferencesExist(schedule) /\ UpdateSchedule(schedule)
  \/ HydrateSchedules
  \/ \E plan \in PlanInputs : AddPlan(plan)
  \/ \E plan \in PlanInputs : HandleDeletePlan(plan)
  \/ DismissDeleteDialog
  \/ ConfirmDeletePlan
  \/ \E i \in 1 .. MaxCalls, ok \in BOOLEAN : PersistStoredSchedulesSettles(i, ok)
  \/ \E i \in 1 .. MaxCalls, ok \in BOOLEAN : LoadStoredSchedulesSettles(i, ok)

SpecIntegrity == InitIntegrity /\ [][NextIntegrity]_vars

----------------------------------------------------------------------------
(* The persistence adapters called directly, in a changing execution context *)

\* The collections handed to persist
MixedSchedules ==
  <<[id |-> "s1", weekdays |-> createEmptyWeekdayAssignment],
    [id |-> "", weekdays |-> createEmptyWeekdayAssignment],
    FirstSchedule>>

ScheduleLists ==
  { <<>>, <<[id |-> "s2", weekdays |-> createEmptyWeekdayAssignment]>>, MixedSchedules }

MixedWorkouts ==
  <<[id |-> "w1", planId |-> "p1", exercises |-> JsArray(<<>>)],
    [id |-> "", planId |-> NULL, exercises |-> JsArray(<<>>)],
    FirstWorkout>>

WorkoutLists ==
  { <<>>, <<[id |-> "w2", planId |-> NULL, exercises |-> JsArray(<<>>)]>>, MixedWorkouts }

InitAdapter ==
  /\ InitCommon
  /\ focus \in {"schedules", "workouts", "plans"}
  /\ storage \in StorageBefore(focus, StoredBefore(FirstOf(focus)))
  /\ env \in Envs

NextAdapter ==
  \/ CallLoadStoredSchedules
  \/ \E items \in ScheduleLists : CallPersistStoredSchedules(items)
  \/ ClearStoredSchedules
  \/ CallLoadStoredWorkoutSessions
  \/ \E items \in WorkoutLists : CallPersistStoredWorkoutSessions(items)
  \/ CallClearStoredWorkoutSessions
  \/ GetPlans
  \/ \E plan \in PlanInputs : SavePlan(plan)
  \/ \E id \in PlanIds : DeletePlan(id)
  \/ \E e \in Envs : EnvironmentChanges(e)
  \/ \E i \in 1 .. MaxCalls, ok \in BOOLEAN : PersistStoredSchedulesSettles(i, ok)
  \/ \E i \in 1 .. MaxCalls, ok \in BOOLEAN : LoadStoredSchedulesSettles(i, ok)
  \/ \E i \in 1 .. MaxCalls, ok \in BOOLEAN : ClearStoredSchedulesSettles(i, ok)
  \/ \E i \in 1 .. MaxCalls, ok \in BOOLEAN : PersistStoredWorkoutSessionsSettles(i, ok)
  \/ \E i \in 1 .. MaxCalls, ok \in BOOLEAN : ClearStoredWorkoutSessionsSettles(i, ok)
  \/ \E i \in 1 .. MaxCalls, ok \in BOOLEAN : LoadStoredWorkoutSessionsSettles(i, ok)
  \/ \E i \in 1 .. MaxCalls, ok \in BOOLEAN : GetPlansSettles(i, ok)
  \/ \E i \in 1 .. MaxCalls, ok \in BOOLEAN : SavePlanReads(i, ok)
  \/ \E i \in 1 .. MaxCalls, ok \in BOOLEAN : SavePlanSettles(i, ok)
  \/ \E i \in 1 .. MaxCalls, ok \in BOOLEAN : DeletePlanReads(i, ok)
  \/ \E i \in 1 .. MaxCalls, ok \in BOOLEAN : DeletePlanSettles(i, ok)

SpecAdapter == InitAdapter /\ [][NextAdapter]_vars

----------------------------------------------------------------------------
(* Properties *)

\* The execution contexts in which AsyncStorage exists
StorageUsable == env \in {"browser", "reactNative"}

NonEmptyIds(items) == SelectSeq(items, LAMBDA x : x.id # "")

LastCall == calls[Len(calls)]

\* This step has called the adapter function fn with a collection whose text is
\* text: the write to the slot key has been started and has not yet returned, or,
\* where there is no storage, the adapter has returned without touching it
PersistCalled(fn, key, text) ==
  /\ storage' = storage
  /\ IF StorageUsable
     THEN /\ Len(calls') = Len(calls) + 1
          /\ SubSeq(calls', 1, Len(calls)) = calls
          /\ calls'[Len(calls')].fn = fn
          /\ calls'[Len(calls')].kind = "setItem"
          /\ calls'[Len(calls')].key = key
          /\ calls'[Len(calls')].data = text
     ELSE /\ calls' = calls
          /\ settled'.fn = fn
          /\ ~settled'.touched

\* C1: when addSchedule / updateSchedule / deleteSchedule (addWorkout / updateWorkout /
\* deleteWorkout) returns its promise, the in-memory collection already shows the
\* operation, while the write the operation started is still in flight: the slot is
\* as it was, and the write carries exactly the collection now in memory.
ReflectedBeforeWriteReturns ==
  [][ /\ \A x \in ScheduleInputs : AddSchedule(x) =>
           /\ Len(schedules') > 0 /\ schedules'[1] = x
           /\ PersistCalled("persistStoredSchedules", SCHEDULES_STORAGE_KEY,
                            serializeSchedules(schedules'))
      /\ \A x \in ScheduleInputs : UpdateSchedule(x) =>
           /\ Len(schedules') = Len(schedules)
           /\ \A i \in 1 .. Len(schedules) : schedules[i].id = x.id => schedules'[i] = x
           /\ PersistCalled("persistStoredSchedules", SCHEDULES_STORAGE_KEY,
                            serializeSchedules(schedules'))
      /\ \A id \in IdInputs : DeleteSchedule(id) =>
           /\ \A i \in 1 .. Len(schedules') : schedules'[i].id # id
           /\ PersistCalled("persistStoredSchedules", SCHEDULES_STORAGE_KEY,
                            serializeSchedules(schedules'))
      /\ \A w \in WorkoutInputs : AddWorkout(w) =>
           /\ Len(workouts') > 0 /\ workouts'[1] = w
           /\ PersistCalled("persistStoredWorkoutSessions", WORKOUTS_STORAGE_KEY,
                            serializeWorkouts(workouts'))
      /\ \A w \in WorkoutInputs : UpdateWorkout(w) =>
           /\ Len(workouts') = Len(workouts)
           /\ \A i \in 1 .. Len(workouts) : workouts[i].id = w.id => workouts'[i] = w
           /\ PersistCalled("persistStoredWorkoutSessions", WORKOUTS_STORAGE_KEY,
                            serializeWorkouts(workouts'))
      /\ \A id \in {"", "w1", "w2"} : DeleteWorkout(id) =>
           /\ \A i \in 1 .. Len(workouts') : workouts'[i].id # id
           /\ PersistCalled("persistStoredWorkoutSessions", WORKOUTS_STORAGE_KEY,
                            serializeWorkouts(workouts'))
    ]_vars

\* an addWorkout has returned, its write is in flight, the slot does not hold it yet
WriteInFlightWitness ==
  /\ calls # <<>>
  /\ LastCall.op = "addWorkout"
  /\ LastCall.data = serializeWorkouts(workouts)
  /\ storage[WORKOUTS_STORAGE_KEY] # LastCall.data
  /\ Len(workouts) = 2

\* C2: addSchedule(x) / addWorkout(x) on a collection C leaves x followed by the
\* elements of C in their order, whatever C and x are (an x whose id is in C included).
AddPrepends ==
  [][ /\ \A x \in ScheduleInputs : AddSchedule(x) => schedules' = <<x>> \o schedules
      /\ \A w \in WorkoutInputs : AddWorkout(w) => workouts' = <<w>> \o workouts
    ]_vars

\* a schedule has been added whose id the collection already held
AddDuplicateIdWitness ==
  /\ Len(schedules) = 2
  /\ schedules[1].id = schedules[2].id
  /\ schedules[1] # schedules[2]
  /\ calls # <<>>
  /\ LastCall.op = "addSchedule"
  /\ LastCall.data = serializeSchedules(schedules)

\* C3: updateSchedule(s) / updateWorkout(w) puts the argument in the place of every
\* element that has its id and leaves the length and the other elements alone; with
\* no such element the collection is unchanged and is persisted all the same.
UpdateReplacesInPlace ==
  [][ /\ \A x \in ScheduleInputs : UpdateSchedule(x) =>
           /\ Len(schedules') = Len(schedules)
           /\ \A i \in 1 .. Len(schedules) :
                schedules'[i] = IF schedules[i].id = x.id THEN x ELSE schedules[i]
           /\ (\A i \in 1 .. Len(schedules) : schedules[i].id # x.id) =>
                /\ schedules' = schedules
                /\ PersistCalled("persistStoredSchedules", SCHEDULES_STORAGE_KEY,
                                 serializeSchedules(schedules))
      /\ \A w \in WorkoutInputs : UpdateWorkout(w) =>
           /\ Len(workouts') = Len(workouts)
           /\ \A i \in 1 .. Len(workouts) :
                workouts'[i] = IF workouts[i].id = w.id THEN w ELSE workouts[i]
           /\ (\A i \in 1 .. Len(workouts) : workouts[i].id # w.id) =>
                /\ workouts' = workouts
                /\ PersistCalled("persistStoredWorkoutSessions", WORKOUTS_STORAGE_KEY,
                                 serializeWorkouts(workouts))
    ]_vars

\* an updateSchedule has acted on a collection of two schedules with different ids
UpdateWitness ==
  /\ Len(schedules) = 2
  /\ schedules[1].id # schedules[2].id
  /\ calls # <<>>
  /\ LastCall.op = "updateSchedule"
  /\ LastCall.data = serializeSchedules(schedules)

\* C4: deleteSchedule(id) / deleteWorkout(id) removes exactly the elements whose id
\* is id, keeps the others in their order and persists the result; with no such
\* element the collection is unchanged.
DeleteRemovesExactly ==
  [][ /\ \A id \in IdInputs : DeleteSchedule(id) =>
           /\ schedules' = SelectSeq(schedules, LAMBDA e : e.id # id)
           /\ PersistCalled("persistStoredSchedules", SCHEDULES_STORAGE_KEY,
                            serializeSchedules(schedules'))
           /\ (\A i \in 1 .. Len(schedules) : schedules[i].id # id) => schedules' = schedules
      /\ \A id \in {"", "w1", "w2"} : DeleteWorkout(id) =>
           /\ workouts' = SelectSeq(workouts, LAMBDA e : e.id # id)
           /\ PersistCalled("persistStoredWorkoutSessions", WORKOUTS_STORAGE_KEY,
                            serializeWorkouts(workouts'))
           /\ (\A i \in 1 .. Len(workouts) : workouts[i].id # id) => workouts' = workouts
    ]_vars

\* a deleteSchedule has taken one of two schedules away; both writes are in flight
DeleteWitness ==
  /\ Len(calls) = 2
  /\ calls[1].op = "addSchedule"
  /\ Len(calls[1].data.elems) = 2
  /\ calls[2].op = "deleteSchedule"
  /\ calls[2].data = serializeSchedules(schedules)
  /\ Len(schedules) = 1

\* C5: when the write (or the removal) started by a store operation fails, the
\* operation's promise resolves all the same and the in-memory collections are what
\* they were: a failed write takes nothing back.
FailedWriteKeepsMemory ==
  [][ (Len(calls') < Len(calls) /\ settled'.outcome = "rejected") =>
        /\ settled'.opOutcome = "resolved"
        /\ schedules' = schedules
        /\ workouts' = workouts
    ]_vars

\* the write of an addSchedule has failed: memory holds what the slot does not
FailedWriteWitness ==
  /\ settled.outcome = "rejected"
  /\ settled.op = "addSchedule"
  /\ settled.opOutcome = "resolved"
  /\ schedules # <<>>
  /\ parseSchedules(storage[SCHEDULES_STORAGE_KEY]) # NonEmptyIds(schedules)

LoadsNeverReject ==
  [][ \A i \in 1 .. MaxCalls, ok \in BOOLEAN :
        ( \/ LoadStoredSchedulesSettles(i, ok)
          \/ LoadStoredWorkoutSessionsSettles(i, ok)
          \/ GetPlansSettles(i, ok) )
        => /\ settled'.outcome = "resolved"
           /\ (~ok \/ storage[calls[i].key].k \in {"null", "garbage", "object"})
                => settled'.result = <<>>
           /\ \A j \in 1 .. Len(settled'.result) : settled'.result[j].id # ""
           /\ (ok /\ storage[calls[i].key].k = "array")
                => Len(settled'.result) =
                     Cardinality({ j \in 1 .. Len(storage[calls[i].key].elems) :
                                     LET e == storage[calls[i].key].elems[j]
                                     IN /\ e.j = "object"
                                        /\ "id" \in DOMAIN e.fields
                                        /\ e.fields.id # "" })
    ]_vars

\* the one call made, a load of a slot that holds an array, has returned nothing:
\* its read failed
FailedReadWitness ==
  /\ ops = 1
  /\ settled.fn = "loadStoredSchedules"
  /\ settled.touched
  /\ settled.outcome = "resolved"
  /\ settled.result = <<>>
  /\ storage[SCHEDULES_STORAGE_KEY].k = "array"
  /\ Len(storage[SCHEDULES_STORAGE_KEY].elems) = 4

TypedErrors ==
  { "Unable to persist schedules", "Unable to clear stored schedules",
    "Unable to persist workouts", "Unable to clear stored workouts",
    "Unable to save plan", "Unable to delete plan" }

\* C8: every write operation of the adapters (persist and clear of schedules and
\* workouts, savePlan, deletePlan) whose storage call fails rejects with its fixed
\* 'Unable to ...' error, never with the error of the storage, and leaves the slot
\* with the content it had.
WriteFailuresAreTyped ==
  [][ (Len(calls') < Len(calls) /\ settled'.outcome = "rejected") =>
        /\ settled'.error \in TypedErrors
        /\ storage' = storage
    ]_vars

\* C9: a call made where AsyncStorage cannot be used starts no storage call, leaves
\* the slot alone and returns at once without error (a load: the empty collection);
\* a call made where it can be used starts its storage call, whatever the context
\* was at the calls before it.
GuardOnEveryCall ==
  [][ ops' = ops + 1 =>
        IF ~StorageUsable
        THEN /\ calls' = calls
             /\ storage' = storage
             /\ settled'.outcome = "resolved"
             /\ settled'.error = "none"
             /\ settled'.result = <<>>
             /\ ~settled'.touched
        ELSE /\ Len(calls') = Len(calls) + 1
             /\ SubSeq(calls', 1, Len(calls)) = calls
             /\ settled' = settled
    ]_vars

\* schedules were persisted while storage could be used; a load made later, on the
\* server, has returned nothing and has not read the slot
GuardWitness ==
  /\ env = "server"
  /\ settled.fn = "loadStoredSchedules"
  /\ ~settled.touched
  /\ settled.result = <<>>
  /\ storage[SCHEDULES_STORAGE_KEY] = serializeSchedules(MixedSchedules)

\* C10: confirmDeletePlan for plan p leaves every weekday slot that held p's id null
\* and every other slot, every schedule's place and the number of schedules as
\* they were.
CascadeNullsOnlyDeletedPlan ==
  [][ ConfirmDeletePlan =>
        /\ Len(schedules') = Len(schedules)
        /\ \A i \in 1 .. Len(schedules) :
             /\ schedules'[i].id = schedules[i].id
             /\ \A d \in Days :
                  schedules'[i].weekdays[d] =
                    IF schedules[i].weekdays[d] = pendingDeletePlan
                    THEN NULL ELSE schedules[i].weekdays[d]
    ]_vars

----------------------------------------------------------------------------
\* C11: in every reachable state every non-null weekday value of every schedule
\* in memory is the id of a plan of the plan collection, when schedules are
\* saved only with references to listed plans and plans are removed only by
\* confirmDeletePlan.
ReferencesResolve ==
  \A i \in 1 .. Len(schedules) : ReferencesExist(schedules[i])

----------------------------------------------------------------------------
\* Every set of every exercise of the workouts has a numeric reps, a numeric
\* weight and a boolean completed, and exercises and sets are arrays
SetIsTyped(set) ==
  /\ set.t = "object"
  /\ DOMAIN set.fields = {"reps", "weight", "completed"}
  /\ set.fields.reps.t = "number"
  /\ set.fields.weight.t = "number"
  /\ set.fields.completed.t = "boolean"

ExerciseIsTyped(exercise) ==
  /\ exercise.t = "object"
  /\ "sets" \in DOMAIN exercise.fields
  /\ exercise.fields.sets.t = "array"
  /\ \A k \in 1 .. Len(exercise.fields.sets.items) :
       SetIsTyped(exercise.fields.sets.items[k])

WorkoutsAreTyped(items) ==
  \A w \in 1 .. Len(items) :
    /\ "exercises" \in DOMAIN items[w]
    /\ items[w].exercises.t = "array"
    /\ \A e \in 1 .. Len(items[w].exercises.items) :
         ExerciseIsTyped(items[w].exercises.items[e])

\* The stored list has no null where an exercise or a set is expected
NoNullEntry(stored) ==
  \A w \in 1 .. Len(stored) :
    ("exercises" \in DOMAIN stored[w] /\ stored[w].exercises.t = "array") =>
      \A e \in 1 .. Len(stored[w].exercises.items) :
        LET exercise == stored[w].exercises.items[e]
        IN /\ exercise.t # "null"
           /\ (exercise.t = "object" /\ "sets" \in DOMAIN exercise.fields
                 /\ exercise.fields.sets.t = "array") =>
                \A k \in 1 .. Len(exercise.fields.sets.items) :
                  exercise.fields.sets.items[k].t # "null"

\* got is the stored set entry with 0 for a reps or weight that is missing or no
\* number and false for a completed that is missing
SetDefaulted(entry, got) ==
  LET has(f) == entry.t = "object" /\ f \in DOMAIN entry.fields
  IN /\ got.fields.reps = IF has("reps") /\ entry.fields.reps.t = "number"
                          THEN entry.fields.reps ELSE JsNumber(0)
     /\ got.fields.weight = IF has("weight") /\ entry.fields.weight.t = "number"
                            THEN entry.fields.weight ELSE JsNumber(0)
     /\ ~has("completed") => got.fields.completed = JsBoolean(FALSE)
     /\ (has("completed") /\ entry.fields.completed.t = "boolean") =>
          got.fields.completed = entry.fields.completed

ExerciseDefaulted(entry, got) ==
  IF entry.t = "object" /\ "sets" \in DOMAIN entry.fields /\ entry.fields.sets.t = "array"
  THEN /\ Len(got.fields.sets.items) = Len(entry.fields.sets.items)
       /\ \A k \in 1 .. Len(entry.fields.sets.items) :
            SetDefaulted(entry.fields.sets.items[k], got.fields.sets.items[k])
  ELSE got.fields.sets = JsArray(<<>>)

WorkoutDefaulted(entry, got) ==
  /\ \A f \in DOMAIN entry \ {"exercises"} : f \in DOMAIN got /\ got[f] = entry[f]
  /\ IF "exercises" \in DOMAIN entry /\ entry.exercises.t = "array"
     THEN /\ Len(got.exercises.items) = Len(entry.exercises.items)
          /\ \A e \in 1 .. Len(entry.exercises.items) :
               ExerciseDefaulted(entry.exercises.items[e], got.exercises.items[e])
     ELSE got.exercises = JsArray(<<>>)

----------------------------------------------------------------------------
\* C13: when the read of hydrateSchedules / hydrateWorkouts returns, the
\* collection in memory is exactly the loaded one; when the hydration fails at
\* any step (the read throws, or the normalisation of the workouts throws),
\* the collection in memory is exactly what it was before; the hydrate promise
\* resolves in both cases.
HydrateReplacesOrKeeps ==
  [][\A i \in 1 .. Len(calls) :
       /\ (calls[i].op = "hydrateSchedules"
             /\ \E ok \in BOOLEAN : LoadStoredSchedulesSettles(i, ok)) =>
            \E ok \in BOOLEAN :
              /\ LoadStoredSchedulesSettles(i, ok)
              /\ settled'.opOutcome = "resolved"
              /\ schedules' = IF ok THEN parseSchedules(storage[SCHEDULES_STORAGE_KEY])
                              ELSE schedules
       /\ (calls[i].op = "hydrateWorkouts"
             /\ \E ok \in BOOLEAN : LoadStoredWorkoutSessionsSettles(i, ok)) =>
            \E ok \in BOOLEAN :
              LET stored == parseWorkouts(storage[WORKOUTS_STORAGE_KEY])
              IN /\ LoadStoredWorkoutSessionsSettles(i, ok)
                 /\ settled'.opOutcome = "resolved"
                 /\ workouts' = IF ok /\ NoNullEntry(stored)
                                THEN hydratedWorkouts(stored) ELSE workouts]_vars

----------------------------------------------------------------------------
\* A write to the workouts slot is in flight among cs
WorkoutsWritePending(cs) ==
  \E j \in 1 .. Len(cs) : cs[j].key = WORKOUTS_STORAGE_KEY /\ cs[j].kind = "setItem"

\* C14: clearWorkouts leaves the workouts in memory empty when it returns its
\* promise, before any storage call has returned, and has started the removal
\* of the workouts slot; when that removal has returned without error and no
\* write to the slot is in flight, loadStoredWorkoutSessions returns the empty
\* collection.
ClearWorkoutsEmpties ==
  [][(ClearWorkouts =>
        /\ workouts' = <<>>
        /\ storage' = storage
        /\ IF StorageUsable
           THEN /\ calls' = Append(calls, calls'[Len(calls')])
                /\ calls'[Len(calls')].fn = "clearStoredWorkoutSessions"
                /\ calls'[Len(calls')].kind = "removeItem"
                /\ calls'[Len(calls')].key = WORKOUTS_STORAGE_KEY
           ELSE calls' = calls /\ settled'.opOutcome = "resolved")
     /\ (\A i \in 1 .. Len(calls) :
           (calls[i].op = "clearWorkouts" /\ ClearStoredWorkoutSessionsSettles(i, TRUE)
              /\ ~WorkoutsWritePending(calls')) =>
             /\ settled'.opOutcome = "resolved"
             /\ \A ok \in BOOLEAN :
                  loadStoredWorkoutSessionsReturns(ok, storage'[WORKOUTS_STORAGE_KEY]).result
                    = <<>>)]_vars

\* The removal started by clearWorkouts has returned without error and no call
\* is in flight
ClearWorkoutsWitness ==
  /\ settled.fn = "clearStoredWorkoutSessions"
  /\ settled.op = "clearWorkouts"
  /\ settled.outcome = "resolved"
  /\ settled.touched
  /\ calls = <<>>
  /\ storage[WORKOUTS_STORAGE_KEY] = NoItem
  /\ workouts = <<>>

----------------------------------------------------------------------------
\* The query has no letter and no digit: it is empty or holds whitespace and
\* punctuation only
OnlySeparators(query) ==
  \A i \in 1 .. Len(query) :
    query[i] \notin Letters \cup Digits \cup DOMAIN UpperCase \cup DOMAIN Accented

\* C15: for every query that normalizes to the empty string, and any catalog,
\* limit and exclusion list, the hook returns the empty list.
EmptyQueryFindsNothing ==
  (search.outcome = "returned" /\ OnlySeparators(search.args.query)) =>
    search.result = <<>>

\* A query of punctuation only has been searched for in a catalog that is not empty
EmptyQueryWitness ==
  /\ search.outcome = "returned"
  /\ search.args.query = <<"-", "!">>
  /\ Len(search.args.exercises) > 1
  /\ search.args.limit = <<>>
  /\ search.result = <<>>

----------------------------------------------------------------------------
\* The expanded tokens of the query of the last render
SearchedTokens == expandTokens(queryTokens(normalizeSearchText(search.args.query)))

\* The token occurs in a field of the exercise, or names a flag that it has
TokenMatches(exercise, token) ==
  \/ includes(normalizeSearchText(exercise.name), token)
  \/ includes(normalizeSearchText(exercise.muscleGroup), token)
  \/ includes(normalizeSearchText(exercise.filterMuscleGroup), token)
  \/ \E i \in 1 .. Len(exercise.secondaryMuscleGroups) :
       includes(normalizeSearchText(exercise.secondaryMuscleGroups[i]), token)
  \/ \E i \in 1 .. Len(exercise.equipment) :
       includes(normalizeSearchText(exercise.equipment[i]), token)
  \/ includes(normalizeSearchText(exercise.movementPattern), token)
  \/ token = <<"c", "o", "m", "p", "o", "u", "n", "d">> /\ exercise.isCompound
  \/ token = <<"b", "o", "d", "y", "w", "e", "i", "g", "h", "t">> /\ exercise.isBodyweight
  \/ includes(exercise.searchIndex, token)

\* C16: no exercise whose total score is 0 and no exercise whose id is in
\* excludeIds is in the result of the search; every exercise of the result has
\* an expanded token of the query that matches one of its fields.
ResultMatchesAndNotExcluded ==
  search.outcome = "returned" =>
    \A k \in 1 .. Len(search.result) :
      /\ \A e \in 1 .. Len(search.args.excludeIds) :
           search.args.excludeIds[e] # search.result[k].id
      /\ scoreExercise(search.result[k], SearchedTokens) > 0
      /\ \E t \in 1 .. Len(SearchedTokens) :
           SearchedTokens[t] # <<>> /\ TokenMatches(search.result[k], SearchedTokens[t])

\* "chest" has been searched for with Bench Press excluded: the catalog holds
\* Bench Press, which matches, and Leg Curl, which does not
ExcludedWitness ==
  /\ search.outcome = "returned"
  /\ search.args.query = <<"c", "h", "e", "s", "t">>
  /\ search.args.exercises = <<CableFly, LegCurl, PushUp, BenchPress, ChestPress>>
  /\ search.args.excludeIds = <<BenchPress.id>>
  /\ search.args.limit = <<>>
  /\ Len(search.result) = 3

----------------------------------------------------------------------------
\* The entries of the catalog that are not excluded and score above 0, and the
\* number of them that go before the i-th entry: those of a higher score and
\* those of the same score that the catalog lists earlier
Candidates ==
  { i \in 1 .. Len(search.args.exercises) :
      /\ \A e \in 1 .. Len(search.args.excludeIds) :
           search.args.excludeIds[e] # search.args.exercises[i].id
      /\ scoreExercise(search.args.exercises[i], SearchedTokens) > 0 }

Rank(i) ==
  Cardinality({ j \in Candidates :
    \/ scoreExercise(search.args.exercises[j], SearchedTokens)
         > scoreExercise(search.args.exercises[i], SearchedTokens)
    \/ /\ scoreExercise(search.args.exercises[j], SearchedTokens)
           = scoreExercise(search.args.exercises[i], SearchedTokens)
       /\ j < i })

LimitSearched == IF search.args.limit = <<>> THEN 6 ELSE search.args.limit[1]

\* C17: the result of the search is the first limit (6 when no limit is given)
\* of the entries that are not excluded and score above 0, in the order of
\* descending score, entries of the same score in the order of the catalog.
ResultIsRankedPrefix ==
  (search.outcome = "returned" /\ ~OnlySeparators(search.args.query)) =>
    /\ Len(search.result) = IF Cardinality(Candidates) < LimitSearched
                            THEN Cardinality(Candidates) ELSE LimitSearched
    /\ Len(search.result) <= LimitSearched
    /\ \A k \in 1 .. Len(search.result) :
         \E i \in Candidates :
           Rank(i) = k - 1 /\ search.result[k] = search.args.exercises[i]
    /\ \A k \in 1 .. Len(search.result) - 1 :
         scoreExercise(search.result[k], SearchedTokens)
           >= scoreExercise(search.result[k + 1], SearchedTokens)

\* "chest" has been searched for with the default limit: Cable Fly and Bench
\* Press have the same score and Cable Fly comes first in the catalog
RankedWitness ==
  /\ search.outcome = "returned"
  /\ search.args.query = <<"c", "h", "e", "s", "t">>
  /\ search.args.limit = <<>>
  /\ search.args.excludeIds = <<>>
  /\ search.result = <<PushUp, ChestPress, CableFly, BenchPress>>
  /\ scoreExercise(CableFly, SearchedTokens) = scoreExercise(BenchPress, SearchedTokens)

----------------------------------------------------------------------------
\* C18: for the query "chest", no limit and no exclusion given, and a catalog
\* that holds Bench Press (primary muscle Chest) and Leg Curl (hamstrings),
\* Bench Press scores at least 5 and is in the result, and Leg Curl scores 0
\* and is not in the result.
ChestFindsBenchPress ==
  ( /\ search.outcome = "returned"
    /\ search.args.query = <<"c", "h", "e", "s", "t">>
    /\ search.args.limit = <<>>
    /\ search.args.excludeIds = <<>>
    /\ \E i \in 1 .. Len(search.args.exercises) : search.args.exercises[i] = BenchPress
    /\ \E i \in 1 .. Len(search.args.exercises) : search.args.exercises[i] = LegCurl ) =>
    /\ scoreExercise(BenchPress, SearchedTokens) >= 5
    /\ \E k \in 1 .. Len(search.result) : search.result[k] = BenchPress
    /\ scoreExercise(LegCurl, SearchedTokens) = 0
    /\ \A k \in 1 .. Len(search.result) : search.result[k] # LegCurl

\* "chest" has been searched for in the catalog of Bench Press and Leg Curl
ChestWitness ==
  /\ search.outcome = "returned"
  /\ search.args.query = <<"c", "h", "e", "s", "t">>
  /\ search.args.limit = <<>>
  /\ search.args.excludeIds = <<>>
  /\ search.args.exercises = <<BenchPress, LegCurl>>
  /\ search.result = <<BenchPress>>

----------------------------------------------------------------------------
\* The local calendar day of an instant on the device of the tracker
TrackerLocalDay(instant) ==
  (instant + utcOffset(tracker.zone, instant)) \div HoursPerDay

\* The local calendar days of the workouts given to the tracker: the day of the
\* start time, else the day of the instant that the date denotes
TrackedLocalDays ==
  { TrackerLocalDay(IF w.startTime # 0 THEN w.startTime
                    ELSE IF w.date.kind = "dateOnly" THEN w.date.at * HoursPerDay
                    ELSE w.date.at) :
      w \in { tracker.workouts[k] : k \in { j \in 1 .. Len(tracker.workouts) :
                \/ tracker.workouts[j].startTime # 0
                \/ tracker.workouts[j].date.kind \in {"dateTime", "dateOnly"} } } }

----------------------------------------------------------------------------
\* C20: at every render of useElapsedTimer in which isActive is false, the first
\* render included, the elapsedSeconds returned is 0, whatever the start time.
InactiveTimerReturnsZero ==
  (timer.mounted /\ ~timer.isActive) => timer.returned = 0

----------------------------------------------------------------------------
\* The weight that the documented precedence gives a token for an exercise: the
\* flag keywords rank right after the muscle groups
PrecedenceWeight(exercise, token) ==
  LET name == normalizeSearchText(exercise.name)
      inSome(fields) ==
        \E i \in 1 .. Len(fields) : includes(normalizeSearchText(fields[i]), token)
  IN IF name = token THEN 10
     ELSE IF startsWith(name, token) THEN 7
     ELSE IF includes(name, token) THEN 6
     ELSE IF inSome(<<exercise.muscleGroup, exercise.filterMuscleGroup>>) THEN 5
     ELSE IF \/ token = <<"c", "o", "m", "p", "o", "u", "n", "d">> /\ exercise.isCompound
             \/ token = <<"b", "o", "d", "y", "w", "e", "i", "g", "h", "t">> /\ exercise.isBodyweight THEN 5
     ELSE IF inSome(exercise.secondaryMuscleGroups) THEN 4
     ELSE IF inSome(exercise.equipment) THEN 4
     ELSE IF inSome(<<exercise.movementPattern>>) THEN 3
     ELSE IF includes(exercise.searchIndex, token) THEN 2
     ELSE 0

RECURSIVE PrecedenceScore(_, _)
PrecedenceScore(exercise, tokens) ==
  IF tokens = <<>> THEN 0
  ELSE PrecedenceWeight(exercise, Head(tokens)) + PrecedenceScore(exercise, Tail(tokens))

\* C25: the score of every exercise of the catalog searched is the sum, over the
\* expanded tokens of the query, of the weight of the highest-ranking field that
\* the token matches, in the order name (10, 7, 6), muscle group (5), compound or
\* bodyweight flag keyword (5), secondary muscle (4), equipment (4), movement
\* pattern (3), search index (2).
ScoreFollowsPrecedence ==
  (search.outcome = "returned" /\ ~queryIsEmpty(normalizeSearchText(search.args.query))) =>
    \A i \in 1 .. Len(search.args.exercises) :
      scoreExercise(search.args.exercises[i], SearchedTokens)
        = PrecedenceScore(search.args.exercises[i], SearchedTokens)

----------------------------------------------------------------------------
\* The tokens of the query of the last render, before their expansion
QueryTokensSearched == queryTokens(normalizeSearchText(search.args.query))

\* The input tokens and the synonyms that the table lists for an input token
DirectExpansion(tokens) ==
  { tokens[i] : i \in 1 .. Len(tokens) }
    \cup UNION { { TOKEN_SYNONYMS[tokens[i]][j] : j \in 1 .. Len(TOKEN_SYNONYMS[tokens[i]]) } :
                   i \in { k \in 1 .. Len(tokens) : tokens[k] \in DOMAIN TOKEN_SYNONYMS } }

\* C26: for the tokens of every query searched, expandTokens returns a collection
\* without duplicates that holds every input token and the direct synonyms of
\* every input token and nothing else.
ExpandTokensIsOneLevel ==
  (search.outcome # "none" /\ QueryTokensSearched # <<>>) =>
    /\ search.outcome = "returned"
    /\ ~expandTokensThrows(QueryTokensSearched)
    /\ \A i, j \in 1 .. Len(SearchedTokens) :
         SearchedTokens[i] = SearchedTokens[j] => i = j
    /\ { SearchedTokens[i] : i \in 1 .. Len(SearchedTokens) }
         = DirectExpansion(QueryTokensSearched)

----------------------------------------------------------------------------
\* The name is empty once the white space around it is removed
NameIsBlank(planName) == \A i \in 1 .. Len(planName) : planName[i] \in {" ", "\t"}

\* The plans that a save of the form has handed to savePlan or to the plan store
\* and that are in flight, stored or listed after a step
PlansSavedByForm ==
  { calls'[i].arg : i \in { k \in 1 .. Len(calls') : calls'[k].op # "none" } }
    \cup { plans'[i] : i \in { k \in 1 .. Len(plans') : plans'[k] # ListedPlan } }

\* C21: an invocation of handleSavePlan or of submitPlan with a name that is blank
\* returns 'missing-name', and one with a name and no exercise selected returns
\* 'no-exercises'; neither starts a storage call, changes the durable slots or
\* changes the plan store; and no plan with an empty name or without exercises
\* is handed to savePlan or to the plan store.
ValidationFailuresAreReported ==
  [][ /\ (HandleSavePlan \/ SubmitPlan) =>
           LET form == builder.callback.form
           IN /\ NameIsBlank(form.planName) =>
                   /\ builder'.result = "missing-name"
                   /\ UNCHANGED <<storage, calls, plans>>
              /\ (~NameIsBlank(form.planName) /\ Len(form.selectedExercises) = 0) =>
                   /\ builder'.result = "no-exercises"
                   /\ UNCHANGED <<storage, calls, plans>>
      /\ \A plan \in PlansSavedByForm : plan.name # <<>> /\ plan.exercises # <<>>
    ]_vars

\* A press with a name of spaces and no exercise has returned 'missing-name', and
\* nothing has been started, stored or listed
MissingNameWitness ==
  /\ builder.result = "missing-name"
  /\ builder.callback.form.planName = <<" ", " ">>
  /\ builder.callback.form.selectedExercises = <<>>
  /\ ops = 2
  /\ calls = <<>>
  /\ plans = <<ListedPlan>>
  /\ storage[PLANS_STORAGE_KEY] = NoItem

\* C22: an invocation of handleSavePlan made while an earlier invocation is still
\* saving starts no storage call and changes neither the durable slots nor the
\* plan store.
OnlyOneSaveAtATime ==
  [][ ( /\ HandleSavePlan
        /\ \E j \in 1 .. Len(builder.invocations) : builder.invocations[j].at = "savePlan" ) =>
        UNCHANGED <<storage, calls, plans>> ]_vars

----------------------------------------------------------------------------
\* The plans that a load of the durable plans slot s yields
StoredPlans(s) == parsePlans(s[PLANS_STORAGE_KEY])

\* C29: when a savePlan(plan) has completed successfully, the durable plans slot
\* holds every plan of another id that it held before, among them the plans that
\* calls overlapping with this one have saved, and exactly one plan of the id of
\* plan, which is plan and comes last.
SavedPlansAccumulate ==
  [][ \A i \in 1 .. Len(calls) :
        SavePlanSettles(i, TRUE) =>
          LET before == StoredPlans(storage)
              after == StoredPlans(storage')
              plan == calls[i].arg
          IN /\ \A b \in 1 .. Len(before) :
                  before[b].id # plan.id =>
                    \E a \in 1 .. Len(after) : after[a] = before[b]
             /\ Cardinality({ a \in 1 .. Len(after) : after[a].id = plan.id }) = 1
             /\ after[Len(after)] = plan
    ]_vars

----------------------------------------------------------------------------
\* The writes of the adapter function fn that are in flight
WritesInFlight(fn) == { j \in 1 .. Len(calls) : calls[j].fn = fn }

\* A write of fn that was in flight has completed in this step: the slot key holds
\* the collection that this write carried, whatever writes were issued before or
\* after it, and every other call in flight stays in flight
CompletedWriteWins(fn, key) ==
  \A i \in 1 .. MaxCalls :
    ( /\ i \in WritesInFlight(fn)
      /\ calls' = RemoveAt(calls, i)
      /\ settled'.fn = fn
      /\ settled'.outcome = "resolved" ) =>
        storage'[key] = calls[i].data

\* C23: of several writes of one store in flight none is cancelled by another
\* one: a step takes at most one call out of flight, and a write that completes
\* leaves the collection it carried in the slot, also when a write issued after it
\* has completed before it; so that, once all have completed, the slot holds the
\* collection of the write that completed last, which is the collection in memory
\* only if that write carried it.
LastCompletionWins ==
  [][ /\ Len(calls') >= Len(calls) - 1
      /\ Len(calls') < Len(calls) => \E i \in 1 .. Len(calls) : calls' = RemoveAt(calls, i)
      /\ CompletedWriteWins("persistStoredSchedules", SCHEDULES_STORAGE_KEY)
      /\ CompletedWriteWins("persistStoredWorkoutSessions", WORKOUTS_STORAGE_KEY)
    ]_vars

\* Two addSchedule writes were in flight; the one issued last has completed and the
\* slot holds both schedules, while the one issued first, which carries the first
\* schedule alone, is still in flight
LaterWriteCompletedFirstWitness ==
  /\ Len(schedules) = 2
  /\ Len(calls) = 1
  /\ calls[1].op = "addSchedule"
  /\ Len(calls[1].data.elems) = 1
  /\ settled.fn = "persistStoredSchedules"
  /\ settled.outcome = "resolved"
  /\ storage[SCHEDULES_STORAGE_KEY] = serializeSchedules(schedules)

----------------------------------------------------------------------------
\* The slot key is as it was, or has been removed, or has been given the text of a
\* write that was in flight for it
SlotTakesWriteInFlight(key) ==
  \/ storage'[key] = storage[key]
  \/ storage'[key] = NoItem
  \/ \E i \in 1 .. Len(calls) :
       /\ calls[i].kind = "setItem"
       /\ calls[i].key = key
       /\ storage'[key] = calls[i].data

\* A write for the slot key started in this step carries the serialization of the
\* whole collection that is in memory when the step is over
WriteStartedCarriesMemory(key, text) ==
  ( /\ Len(calls') = Len(calls) + 1
    /\ calls'[Len(calls')].kind = "setItem"
    /\ calls'[Len(calls')].key = key ) =>
      calls'[Len(calls')].data = text

\* C30: the schedules slot (the workouts slot) only ever changes by being removed
\* or by taking, whole, the text carried by a write in flight, and every write is
\* started with the serialization of the complete collection of its store at that
\* moment: so the slot is always absent, as it was before the process started, or
\* the serialization of a collection that the store held at an earlier moment.
SlotMirrorsMemory ==
  [][ /\ SlotTakesWriteInFlight(SCHEDULES_STORAGE_KEY)
      /\ SlotTakesWriteInFlight(WORKOUTS_STORAGE_KEY)
      /\ WriteStartedCarriesMemory(SCHEDULES_STORAGE_KEY, serializeSchedules(schedules'))
      /\ WriteStartedCarriesMemory(WORKOUTS_STORAGE_KEY, serializeWorkouts(workouts'))
    ]_vars

\* All writes have completed and the schedules slot holds an earlier collection of
\* the store, of one schedule, while the store holds two
SlotHoldsEarlierSnapshotWitness ==
  /\ calls = <<>>
  /\ settled.fn = "persistStoredSchedules"
  /\ settled.outcome = "resolved"
  /\ Len(schedules) = 2
  /\ Len(storage[SCHEDULES_STORAGE_KEY].elems) = 1
  /\ storage[SCHEDULES_STORAGE_KEY].elems[1] = StringifyItem(schedules[2])

----------------------------------------------------------------------------
\* C28: clearWorkouts has been called and has left the memory empty. When the call
\* that returns last is the removal it started, or, the removal having returned
\* without error, a write to the workouts slot that was in flight beside it, the
\* workouts slot is then absent: a load of it yields the empty collection.
ClearedSlotStaysAbsent ==
  [][ ( /\ Len(calls) = 1
        /\ workouts = <<>>
        /\ \/ /\ calls[1].op = "clearWorkouts"
              /\ ClearStoredWorkoutSessionsSettles(1, TRUE)
           \/ /\ settled.op = "clearWorkouts"
              /\ settled.outcome = "resolved"
              /\ \E ok \in BOOLEAN : PersistStoredWorkoutSessionsSettles(1, ok) ) =>
        parseWorkouts(storage'[WORKOUTS_STORAGE_KEY]) = <<>>
    ]_vars

----------------------------------------------------------------------------
\* The ids of the entries of items
IdsOf(items) == { items[k].id : k \in 1 .. Len(items) }

\* The calls in flight that operation op started after the call at position i
StartedAfter(i, op) == { j \in i + 1 .. Len(calls) : calls[j].op = op }

\* The id of the entry that the add whose write is the call at position j put first
AddedId(j) == calls[j].data.elems[1].fields.id

\* C27: when the read of a hydrateSchedules / hydrateWorkouts returns, an entry
\* that an addSchedule / addWorkout called after the hydrate has put in memory,
\* and that memory still holds, is still in memory, and the workouts that a
\* clearWorkouts called after the hydrate has emptied are still empty.
HydrateKeepsLaterMutations ==
  [][ \A i \in 1 .. Len(calls) :
        /\ ( /\ calls[i].op = "hydrateSchedules"
             /\ \E ok \in BOOLEAN : LoadStoredSchedulesSettles(i, ok) ) =>
               \A j \in StartedAfter(i, "addSchedule") :
                 AddedId(j) \in IdsOf(schedules) => AddedId(j) \in IdsOf(schedules')
        /\ ( /\ calls[i].op = "hydrateWorkouts"
             /\ \E ok \in BOOLEAN : LoadStoredWorkoutSessionsSettles(i, ok) ) =>
               /\ \A j \in StartedAfter(i, "addWorkout") :
                    AddedId(j) \in IdsOf(workouts) => AddedId(j) \in IdsOf(workouts')
               /\ (StartedAfter(i, "clearWorkouts") # {} /\ workouts = <<>>) =>
                    workouts' = <<>>
    ]_vars

----------------------------------------------------------------------------
\* The stores with every call of AsyncStorage returning eventually, with or
\* without an error
SpecFair ==
  /\ Spec
  /\ \A i \in 1 .. MaxCalls, ok \in BOOLEAN :
       /\ WF_vars(PersistStoredSchedulesSettles(i, ok))
       /\ WF_vars(LoadStoredSchedulesSettles(i, ok))
       /\ WF_vars(PersistStoredWorkoutSessionsSettles(i, ok))
       /\ WF_vars(ClearStoredWorkoutSessionsSettles(i, ok))
       /\ WF_vars(LoadStoredWorkoutSessionsSettles(i, ok))

\* The durable copy of the schedules (of the workouts) is the collection in
\* memory restricted to the entries with a non-empty id
SchedulesRepaired == parseSchedules(storage[SCHEDULES_STORAGE_KEY]) = NonEmptyIds(schedules)

WorkoutsRepaired == parseWorkouts(storage[WORKOUTS_STORAGE_KEY]) = NonEmptyIds(workouts)

\* No call is in flight and the call that returned last is a write of fn with
\* this outcome
LastReturned(fn, outcome) ==
  /\ calls = <<>>
  /\ settled.fn = fn
  /\ settled.outcome = outcome

\* C24: once a write of a store has failed, with no other call in flight, and has
\* left the durable copy different from the collection in memory, then whenever
\* afterwards the call that returned last is a successful write of that store,
\* which a later mutating operation started, and no call is in flight any more,
\* the durable copy is the collection in memory restricted to the entries with a
\* non-empty id.
SuccessfulWriteRepairs ==
  /\ [](( LastReturned("persistStoredSchedules", "rejected") /\ ~SchedulesRepaired ) =>
        [](LastReturned("persistStoredSchedules", "resolved") => SchedulesRepaired))
  /\ [](( LastReturned("persistStoredWorkoutSessions", "rejected") /\ ~WorkoutsRepaired ) =>
        [](LastReturned("persistStoredWorkoutSessions", "resolved") => WorkoutsRepaired))

====
